---- MODULE Spec2Model ----
(***************************************************************************)
(* A model of the FastAPI lab application: the JSON file store             *)
(* (app/core/database.py), the principal resolver (app/dependencies.py),   *)
(* the order / product handlers (app/api/v1/orders.py, products.py) and    *)
(* the user handlers (app/api/v1/auth.py, users.py, app/api/v2).           *)
(*                                                                         *)
(* Every handler is an asyncio coroutine on one event loop.  The only      *)
(* suspension point of the code is `await asyncio.sleep(0)` at the top of  *)
(* JSONDatabase.get_all, which every store call makes first; the code      *)
(* between two such points runs without interruption.  An action of the    *)
(* model is therefore one resumption: the file read that follows the       *)
(* sleep, the rest of the store call, and the handler's code up to its     *)
(* next store call.  Timestamps (created_at, updated_at) and the item's    *)
(* product_name are carried by the code but read by nothing; they are      *)
(* left out of the records.                                                *)
(***************************************************************************)
EXTENDS Integers, Sequences, FiniteSets, TLC

\* ------------------------------------------------------------------ bounds
NumHandlers == 3   \* requests served in one run, each by its own handler
MaxInFlight == 2   \* handlers running at the same time
MaxStock    == 2   \* largest stock a product starts with or an admin sets
MaxQty      == 2   \* largest quantity of one order item
MaxOrders   == 2   \* orders already stored when the readers start
MaxSkip     == 1   \* largest skip of a get_orders request
MaxLimit    == 2   \* largest limit of a get_orders request
NumCalls    == 3   \* store calls made on one collection in one run

VARIABLES
    users,      \* content of users.json: a sequence of user records
    products,   \* content of products.json
    orders,     \* content of orders.json
    handlers,   \* handlers[h]: the coroutine serving request h (its locals)
    stock0,     \* history: the stock each product was last given by the
                \* seed or an admin
    reqlog,     \* history: reqlog[h] is what request h asked for: its
                \* subject, operation, items or target

    disk,       \* one collection file as it is on disk: the records written
                \* so far and whether the JSON text is complete
    calls,      \* calls[c]: a JSONDatabase call on that collection
    crashed     \* the process was killed

storeVars == <<disk, calls, crashed>>
vars == <<users, products, orders, handlers, stock0, reqlog, storeVars>>

Handlers == 1..NumHandlers

\* Python's None
None == [none |-> TRUE]

\* ------------------------------------------------------- the document store
\* next((item for item in data if item.get(field) == value), None)
GetByField(data, field, value) ==
    IF \E k \in 1..Len(data) : data[k][field] = value
    THEN data[CHOOSE k \in 1..Len(data) :
                 /\ data[k][field] = value
                 /\ \A j \in 1..(k - 1) : data[j][field] # value]
    ELSE None

GetById(data, id) == GetByField(data, "id", id)

\* dict.update: the keys of upd replace or extend those of rec
Merge(rec, upd) ==
    [f \in (DOMAIN rec) \cup (DOMAIN upd) |->
        IF f \in DOMAIN upd THEN upd[f] ELSE rec[f]]

\* JSONDatabase.create after its read: append, write (no duplicate check)
DbCreate(data, item) == Append(data, item)

\* a faulty update that merges the fields into every record once the id is
\* found; C24 tells it apart from DbUpdate
DbUpdateEvery(data, id, upd) ==
    IF GetById(data, id) = None
    THEN data
    ELSE [k \in 1..Len(data) |-> Merge(data[k], upd)]

\* JSONDatabase.update after its read: the first record with the id is
\* merged and the file written; with no such record nothing is written
DbUpdate(data, id, upd) ==
    IF GetById(data, id) = None
    THEN data
    ELSE LET k == CHOOSE k \in 1..Len(data) :
                     /\ data[k].id = id
                     /\ \A j \in 1..(k - 1) : data[j].id # id
         IN  [data EXCEPT ![k] = Merge(data[k], upd)]

\* a faulty delete that drops the first record with the id and keeps the
\* later ones; C27 tells it apart from DbDelete
DbDeleteFirstOnly(data, id) ==
    IF GetById(data, id) = None
    THEN data
    ELSE LET k == CHOOSE k \in 1..Len(data) :
                     /\ data[k].id = id
                     /\ \A j \in 1..(k - 1) : data[j].id # id
         IN  SubSeq(data, 1, k - 1) \o SubSeq(data, k + 1, Len(data))

\* JSONDatabase.delete after its read: every record with the id is dropped
DbDelete(data, id) == SelectSeq(data, LAMBDA r : r.id # id)

\* JSONDatabase.filter with one condition
DbFilter(data, field, value) == SelectSeq(data, LAMBDA r : r[field] = value)

\* ------------------------------------------------------------------ users
AdminUser == [id |-> "u0", username |-> "admin", role |-> "admin", is_active |-> TRUE]
AliceUser == [id |-> "u1", username |-> "alice", role |-> "user",  is_active |-> TRUE]
BobUser   == [id |-> "u2", username |-> "bob",   role |-> "user",  is_active |-> TRUE]

SeedUsers == <<AdminUser, AliceUser, BobUser>>
Usernames == {"admin", "alice", "bob"}

\* a faulty dependency chain without the is_active check; C17 tells it
\* apart from AuthError
AuthErrorIgnoringActive(user, adminOnly) ==
    IF user = None THEN "401"
    ELSE IF adminOnly /\ user.role # "admin" THEN "403"
    ELSE ""

\* get_current_user + get_current_active_user (+ get_current_admin_user):
\* the error the dependency chain raises, or "" when it returns the user
AuthError(user, adminOnly) ==
    IF user = None THEN "401"
    ELSE IF ~user.is_active THEN "403"
    ELSE IF adminOnly /\ user.role # "admin" THEN "403"
    ELSE ""

\* products.json as the startup seed leaves it (main.py 59-96), with one
\* product; "p2" is an id no record has
SeedProducts(s) == <<[id |-> "p1", stock |-> s]>>

\* --------------------------------------------------------------- requests
ProductIds == {"p1", "p2"}
Statuses   == {"pending", "processing", "completed", "cancelled"}
Prices     == {2}

Items == [product_id : ProductIds, quantity : 1..MaxQty, price : Prices]

\* OrderCreate.items: min_items = 1
ItemLists == {<<it>> : it \in Items}
             \cup {<<a, b>> : a \in {it \in Items : it.quantity = 1},
                              b \in {it \in Items : it.quantity = 1}}

\* OrderCreate(**payload): pydantic keeps the declared field, items, and
\* drops every other key of the payload (a client-sent user_id included)
OrderCreate(payload) == [items |-> payload.items]

\* the user_id a client puts in the payload: the admin's id (the value a
\* client would send to pass an order off as another principal's)
PayloadUserIds == {"u0"}

\* a faulty dependency declaration that leaves the product handlers to
\* get_current_active_user; C19 tells it apart from AdminOnly
AdminOnlyButProducts(op) ==
    op \in {"update_order_status", "delete_user", "deactivate_user",
            "activate_user"}

\* a faulty dependency declaration that leaves update_order_status to
\* get_current_active_user; C14 tells it apart from AdminOnly
AdminOnlyButStatus(op) ==
    op \in {"delete_user", "deactivate_user", "activate_user",
            "create_product", "update_product", "delete_product"}

\* the handlers that depend on get_current_admin_user
AdminOnly(op) ==
    op \in {"update_order_status", "delete_user", "deactivate_user",
            "activate_user", "create_product", "update_product",
            "delete_product"}

\* ------------------------------------------------------------ the handlers
\* writes counts the stock updates the handler has written and
\* payload_user_id is the user_id the client put in the payload (history:
\* no code reads either); target is the user_id / product_id of the path
\* and draft the request body of the user and product handlers
Idle == [pc |-> "idle", op |-> "", sub |-> "", user |-> None,
         items |-> <<>>, order_id |-> 0, status |-> "",
         i |-> 0, total |-> 0, new_stock |-> 0, order |-> None,
         writes |-> 0, payload_user_id |-> "", outcome |-> "",
         skip |-> 0, limit |-> 0, result |-> <<>>,
         target |-> "", draft |-> None]

NoRequest == [sub |-> "", items |-> <<>>, payload_user_id |-> "",
              op |-> "", target |-> ""]

\* the response is sent and the coroutine's locals are gone
Finished(outcome) == [Idle EXCEPT !.pc = "done", !.outcome = outcome]

Set(h, rec) == handlers' = [handlers EXCEPT ![h] = rec]

\* history: what request h asked for and under which subject
Logged(h, sub, op, target) ==
    reqlog' = [reqlog EXCEPT ![h] =
                  [sub |-> sub, items |-> <<>>, payload_user_id |-> "",
                   op |-> op, target |-> target]]

\* the handler's first store call after the dependencies returned the user
FirstCall(op) ==
    CASE op = "create_order"        -> "co_check"
      [] op = "cancel_order"        -> "ca_get"
      [] op = "update_order_status" -> "us_get"
      [] op = "get_orders"          -> "go_list"
      [] op = "get_order"           -> "goo_get"
      [] op = "update_user"         -> "uu_get"
      [] op = "delete_user"         -> "du_get"
      [] op = "deactivate_user"     -> "de_get"
      [] op = "activate_user"       -> "ac_get"
      [] op = "create_product"      -> "cp_insert"
      [] op = "update_product"      -> "up_get"
      [] op = "delete_product"      -> "dp_get"
      [] op = "get_user"            -> "gu_get"
      [] op = "get_user_activity"   -> "ga_get"

InFlight == {h \in Handlers : handlers[h].pc \notin {"idle", "done"}}

\* Request h may start: the requests are numbered in the order they start,
\* and at most MaxInFlight run together.
MayStart(h) ==
    /\ handlers[h].pc = "idle"
    /\ \A g \in 1..(h - 1) : handlers[g].pc # "idle"
    /\ Cardinality(InFlight) < MaxInFlight

\* get_current_user resumes from get_by_field("username", sub): read
\* users.json, find the subject, check it (dependencies.py 11-45), enter the
\* handler and suspend in its first store call.  The request has no effect
\* before this point, so its arrival is part of the step.
Authenticate(h, req) ==
    LET user == GetByField(users, "username", req.sub)
        err  == AuthError(user, AdminOnly(req.op))
    IN  IF err # ""
        THEN Set(h, Finished(err))
        ELSE Set(h, [req EXCEPT !.user = user, !.pc = FirstCall(req.op),
                                !.i = 1])

StartCreateOrder(h) ==
    /\ MayStart(h)
    /\ \E sub \in Usernames, its \in ItemLists, uid \in PayloadUserIds :
          LET order == OrderCreate([items |-> its, user_id |-> uid])
          IN  Authenticate(h, [Idle EXCEPT !.op = "create_order",
                                          !.sub = sub, !.items = order.items,
                                          !.payload_user_id = uid])
    /\ UNCHANGED <<users, products, orders, stock0, reqlog, storeVars>>

StartCancelOrder(h) ==
    /\ MayStart(h)
    /\ \E sub \in Usernames, oid \in Handlers :
          Authenticate(h, [Idle EXCEPT !.op = "cancel_order",
                                      !.sub = sub, !.order_id = oid])
    /\ UNCHANGED <<users, products, orders, stock0, reqlog, storeVars>>

StartUpdateOrderStatus(h) ==
    /\ MayStart(h)
    /\ \E sub \in Usernames, oid \in Handlers, st \in Statuses :
          Authenticate(h, [Idle EXCEPT !.op = "update_order_status",
                                      !.sub = sub, !.order_id = oid,
                                      !.status = st])
    /\ UNCHANGED <<users, products, orders, stock0, reqlog, storeVars>>

\* ---- create_order (orders.py 77-126)
\* a faulty order_data that takes the owner from the request payload; C8
\* tells it apart from OrderData
OrderDataFromPayload(h, current_user, items, total_amount) ==
    [id |-> h, user_id |-> handlers[h].payload_user_id, items |-> items,
     status |-> "pending", total_amount |-> total_amount]

\* a faulty order_data that totals the first item only; C20 tells it apart
\* from OrderData
OrderDataFirstItemTotal(h, current_user, items, total_amount) ==
    [id |-> h, user_id |-> current_user.id, items |-> items,
     status |-> "pending",
     total_amount |-> Head(items).quantity * Head(items).price]

\* order_data: the id is a fresh uuid4 (the request's own number here), the
\* owner is the resolved principal
OrderData(h, current_user, items, total_amount) ==
    [id |-> h, user_id |-> current_user.id, items |-> items,
     status |-> "pending", total_amount |-> total_amount]

\* a faulty first loop that looks the product up and never compares its
\* stock with the quantity; C22 tells it apart from CreateOrderCheck
CreateOrderCheckNoStock(h) ==
    /\ handlers[h].pc = "co_check"
    /\ LET hr      == handlers[h]
           item    == hr.items[hr.i]
           product == GetById(products, item.product_id)
           total   == hr.total + item.quantity * item.price
       IN  IF product = None
           THEN Set(h, Finished("400"))
           ELSE IF hr.i < Len(hr.items)
           THEN Set(h, [hr EXCEPT !.total = total, !.i = hr.i + 1])
           ELSE Set(h, [hr EXCEPT !.total = total, !.i = 1, !.pc = "co_read",
                           !.order = OrderData(h, hr.user, hr.items, total)])
    /\ UNCHANGED <<users, products, orders, stock0, reqlog, storeVars>>

\* first loop, one item: product = await db_products.get_by_id(...)
CreateOrderCheck(h) ==
    /\ handlers[h].pc = "co_check"
    /\ LET hr      == handlers[h]
           item    == hr.items[hr.i]
           product == GetById(products, item.product_id)
           total   == hr.total + item.quantity * item.price
       IN  IF product = None
           THEN Set(h, Finished("400"))
           ELSE IF product.stock < item.quantity
           THEN Set(h, Finished("400"))
           ELSE IF hr.i < Len(hr.items)
           THEN Set(h, [hr EXCEPT !.total = total, !.i = hr.i + 1])
           ELSE Set(h, [hr EXCEPT !.total = total, !.i = 1, !.pc = "co_read",
                           !.order = OrderData(h, hr.user, hr.items, total)])
    /\ UNCHANGED <<users, products, orders, stock0, reqlog, storeVars>>

\* second loop: product = await db_products.get_by_id(...); new_stock = ...
\* (product["stock"] on None raises TypeError: the request ends in a 500)
CreateOrderRead(h) ==
    /\ handlers[h].pc = "co_read"
    /\ LET hr      == handlers[h]
           item    == hr.items[hr.i]
           product == GetById(products, item.product_id)
       IN  IF product = None
           THEN Set(h, Finished("500"))
           ELSE Set(h, [hr EXCEPT !.new_stock = product.stock - item.quantity,
                                  !.pc = "co_write"])
    /\ UNCHANGED <<users, products, orders, stock0, reqlog, storeVars>>

\* second loop: await db_products.update(product_id, {"stock": new_stock})
CreateOrderWrite(h) ==
    /\ handlers[h].pc = "co_write"
    /\ LET hr   == handlers[h]
           item == hr.items[hr.i]
           w    == IF products' # products THEN hr.writes + 1 ELSE hr.writes
       IN  /\ products' = DbUpdate(products, item.product_id,
                                   [stock |-> hr.new_stock])
           /\ IF hr.i < Len(hr.items)
              THEN Set(h, [hr EXCEPT !.i = hr.i + 1, !.pc = "co_read",
                                     !.writes = w])
              ELSE Set(h, [hr EXCEPT !.pc = "co_insert", !.writes = w])
    /\ UNCHANGED <<users, orders, stock0, reqlog, storeVars>>

\* await db_orders.create(order_data); return
CreateOrderInsert(h) ==
    /\ handlers[h].pc = "co_insert"
    /\ orders' = DbCreate(orders, handlers[h].order)
    /\ Set(h, Finished("201"))
    /\ reqlog' = [reqlog EXCEPT ![h] =
                     [sub |-> handlers[h].sub, items |-> handlers[h].items,
                      payload_user_id |-> handlers[h].payload_user_id,
                      op |-> "create_order", target |-> ""]]
    /\ UNCHANGED <<users, products, stock0, storeVars>>

\* ---- update_order_status (orders.py 128-151)
UpdateOrderStatusGet(h) ==
    /\ handlers[h].pc = "us_get"
    /\ LET hr    == handlers[h]
           order == GetById(orders, hr.order_id)
       IN  IF order = None
           THEN Set(h, Finished("404"))
           ELSE Set(h, [hr EXCEPT !.order = order, !.pc = "us_write"])
    /\ UNCHANGED <<users, products, orders, stock0, reqlog, storeVars>>

\* a faulty update_order_status that refuses to move a cancelled order; C21
\* tells it apart from UpdateOrderStatusWrite
UpdateOrderStatusWriteValidated(h) ==
    /\ handlers[h].pc = "us_write"
    /\ LET order == GetById(orders, handlers[h].order_id)
       IN  IF order # None /\ order.status = "cancelled"
           THEN orders' = orders /\ Set(h, Finished("400"))
           ELSE /\ orders' = DbUpdate(orders, handlers[h].order_id,
                                      [status |-> handlers[h].status])
                /\ Set(h, Finished("200"))
    /\ UNCHANGED <<users, products, stock0, reqlog, storeVars>>

\* await db.update(order_id, {"status": ..., "updated_at": ...}); the time
\* stamps of the records are not part of the model
UpdateOrderStatusWrite(h) ==
    /\ handlers[h].pc = "us_write"
    /\ orders' = DbUpdate(orders, handlers[h].order_id,
                          [status |-> handlers[h].status])
    /\ Set(h, Finished("200"))
    /\ UNCHANGED <<users, products, stock0, reqlog, storeVars>>

\* ---- cancel_order (orders.py 153-200)
\* the gate: the error raised for the order read, or ""
CancelGate(current_user, order) ==
    IF order = None THEN "404"
    ELSE IF current_user.role # "admin" /\ order.user_id # current_user.id
    THEN "403"
    ELSE IF current_user.role # "admin" /\ order.status # "pending"
    THEN "400"
    ELSE ""

CancelOrderGet(h) ==
    /\ handlers[h].pc = "ca_get"
    /\ LET hr    == handlers[h]
           order == GetById(orders, hr.order_id)
           err   == CancelGate(hr.user, order)
       IN  IF err # ""
           THEN Set(h, Finished(err))
           ELSE Set(h, [hr EXCEPT !.order = order, !.i = 1, !.pc = "ca_read"])
    /\ UNCHANGED <<users, products, orders, stock0, reqlog, storeVars>>

\* a faulty restore loop that stops after its first item; C16 tells it
\* apart from CancelNext
CancelNextFirstOnly(hr) == [hr EXCEPT !.pc = "ca_status"]

\* after item i of the restore loop: the next item, or the status update
CancelNext(hr) ==
    IF hr.i < Len(hr.order.items)
    THEN [hr EXCEPT !.i = hr.i + 1, !.pc = "ca_read"]
    ELSE [hr EXCEPT !.pc = "ca_status"]

\* a faulty restore loop that raises NotFoundException for an item whose
\* product is gone; C23 tells it apart from CancelOrderRead
CancelOrderReadStrict(h) ==
    /\ handlers[h].pc = "ca_read"
    /\ LET hr      == handlers[h]
           item    == hr.order.items[hr.i]
           product == GetById(products, item.product_id)
       IN  IF product = None
           THEN Set(h, Finished("404"))
           ELSE Set(h, [hr EXCEPT !.new_stock = product.stock + item.quantity,
                                  !.pc = "ca_write"])
    /\ UNCHANGED <<users, products, orders, stock0, reqlog, storeVars>>

\* product = await db_products.get_by_id(...); if product: new_stock = ...
CancelOrderRead(h) ==
    /\ handlers[h].pc = "ca_read"
    /\ LET hr      == handlers[h]
           item    == hr.order.items[hr.i]
           product == GetById(products, item.product_id)
       IN  IF product = None
           THEN Set(h, CancelNext(hr))
           ELSE Set(h, [hr EXCEPT !.new_stock = product.stock + item.quantity,
                                  !.pc = "ca_write"])
    /\ UNCHANGED <<users, products, orders, stock0, reqlog, storeVars>>

CancelOrderWrite(h) ==
    /\ handlers[h].pc = "ca_write"
    /\ LET hr   == handlers[h]
           item == hr.order.items[hr.i]
           w    == IF products' # products THEN hr.writes + 1 ELSE hr.writes
       IN  /\ products' = DbUpdate(products, item.product_id,
                                   [stock |-> hr.new_stock])
           /\ Set(h, CancelNext([hr EXCEPT !.writes = w]))
    /\ UNCHANGED <<users, orders, stock0, reqlog, storeVars>>

CancelOrderStatus(h) ==
    /\ handlers[h].pc = "ca_status"
    /\ orders' = DbUpdate(orders, handlers[h].order_id,
                          [status |-> "cancelled"])
    /\ Set(h, Finished("204"))
    /\ UNCHANGED <<users, products, stock0, reqlog, storeVars>>

\* ---- the store alone: calls on one collection, the write in its parts
\* (database.py 22-71).  _write opens the file with mode 'w', which empties
\* it, json.dump writes the text, and leaving the with block closes it; none
\* of this awaits, so no other coroutine runs meanwhile, but the process can
\* be killed at any point.
Calls == 1..NumCalls

SeedRecord == [id |-> 0, a |-> 0, b |-> 0]
SeedFile   == [recs |-> <<SeedRecord>>, complete |-> TRUE, exists |-> TRUE]

\* the collection file is not there yet
NoFile == [recs |-> <<>>, complete |-> FALSE, exists |-> FALSE]

\* the file after _write([])
EmptyFile == [recs |-> <<>>, complete |-> TRUE, exists |-> TRUE]

\* a faulty _ensure_file_exists that writes [] whether or not the file is
\* there; C28 tells it apart from EnsureFileExists
EnsureFileTruncated(file) == EmptyFile

\* _ensure_file_exists: if not self.filepath.exists(): self._write([])
EnsureFileExists(file) == IF file.exists THEN file ELSE EmptyFile

NoCall == [pc |-> "idle", op |-> "", id |-> 0, item |-> None, upd |-> None,
           snap |-> <<>>, buf |-> <<>>, ret |-> None]

\* the store variables while only the handlers are looked at
StoreAtRest ==
    /\ disk = SeedFile
    /\ calls = [c \in Calls |-> NoCall]
    /\ crashed = FALSE

appVars == <<users, products, orders, handlers, stock0, reqlog>>

\* a coroutine can run: the process lives and no synchronous _write is
\* under way
LoopFree == ~crashed /\ \A c \in Calls : calls[c].pc # "writing"

\* the handler opens its handle (JSONDatabase(filename): __init__ runs
\* _ensure_file_exists, nothing of it awaits), makes the call, and the call
\* suspends in get_all's asyncio.sleep(0); snap records (history) what the
\* file held at that moment
Suspend(c, call) ==
    /\ LoopFree
    /\ calls[c].pc = "idle"
    /\ \A d \in 1..(c - 1) : calls[d].pc # "idle"
    /\ disk' = EnsureFileExists(disk)
    /\ calls' = [calls EXCEPT ![c] = [call EXCEPT !.pc = "sleep",
                                                  !.snap = disk'.recs]]
    /\ UNCHANGED <<crashed, appVars>>

\* create(item): the caller chooses the item's id; the handlers pass a fresh
\* uuid (the call's number here), but the store takes any, the id of a
\* stored record too
StoreCallCreate(c) ==
    \E id \in {0, c} :
        Suspend(c, [NoCall EXCEPT !.op = "create",
                                  !.item = [id |-> id, a |-> 0, b |-> 0]])

StoreCallUpdate(c) ==
    \E id \in {0, 1}, upd \in {[a |-> 1], [b |-> 1]} :
        Suspend(c, [NoCall EXCEPT !.op = "update", !.id = id, !.upd = upd])

StoreCallDelete(c) ==
    \E id \in {0, 1} :
        Suspend(c, [NoCall EXCEPT !.op = "delete", !.id = id])

\* a faulty get_all that reads before it sleeps: the call works on the content
\* the file had when the call was made
GetAllBeforeSleep(c) == calls[c].snap

\* get_all: await asyncio.sleep(0); return self._read() -- the data a call
\* works on is the file content when it resumes
GetAll(c) == disk.recs

\* what the call makes of the data it read
NewData(call, data) ==
    CASE call.op = "create" -> DbCreate(data, call.item)
      [] call.op = "update" -> DbUpdate(data, call.id, call.upd)
      [] call.op = "delete" -> DbDelete(data, call.id)

\* whether the call reaches self._write
Writes(call, data) ==
    CASE call.op = "create" -> TRUE
      [] call.op = "update" -> GetById(data, call.id) # None
      [] call.op = "delete" -> Len(DbDelete(data, call.id)) < Len(data)

\* what the call returns
Returns(call, data) ==
    CASE call.op = "create" -> call.item
      [] call.op = "update" -> GetById(NewData(call, data), call.id)
      [] call.op = "delete" -> [deleted |-> Writes(call, data)]

\* the call resumes: read, change the list, and (when it writes) open the
\* file for writing, which truncates it
StoreResume(c) ==
    /\ LoopFree
    /\ calls[c].pc = "sleep"
    /\ LET call == calls[c]
           data == GetAll(c)
       IN  IF Writes(call, data)
           THEN /\ disk' = [disk EXCEPT !.recs = <<>>, !.complete = FALSE]
                /\ calls' = [calls EXCEPT ![c] =
                       [call EXCEPT !.pc = "writing",
                                    !.buf = NewData(call, data),
                                    !.ret = Returns(call, data)]]
           ELSE /\ disk' = disk
                /\ calls' = [calls EXCEPT ![c] =
                       [call EXCEPT !.pc = "done",
                                    !.ret = Returns(call, data)]]
    /\ UNCHANGED <<crashed, appVars>>

\* json.dump: the text reaches the file a record at a time
StoreWriteChunk(c) ==
    /\ ~crashed
    /\ calls[c].pc = "writing"
    /\ Len(disk.recs) < Len(calls[c].buf)
    /\ disk' = [disk EXCEPT !.recs = Append(@, calls[c].buf[Len(@) + 1])]
    /\ UNCHANGED <<calls, crashed, appVars>>

\* the closing bracket is written and the file closed; the call returns
StoreWriteClose(c) ==
    /\ ~crashed
    /\ calls[c].pc = "writing"
    /\ Len(disk.recs) = Len(calls[c].buf)
    /\ disk' = [disk EXCEPT !.complete = TRUE]
    /\ calls' = [calls EXCEPT ![c] = [@ EXCEPT !.pc = "done", !.buf = <<>>]]
    /\ UNCHANGED <<crashed, appVars>>

\* the process is killed; the file stays as it is
Crash ==
    /\ ~crashed
    /\ crashed' = TRUE
    /\ UNCHANGED <<disk, calls, appVars>>

InitStore ==
    /\ users = SeedUsers
    /\ products = SeedProducts(MaxStock)
    /\ orders = <<>>
    /\ handlers = [h \in Handlers |-> Idle]
    /\ stock0 = [p \in {"p1"} |-> MaxStock]
    /\ reqlog = [h \in Handlers |-> NoRequest]
    /\ StoreAtRest

NextStore ==
    \/ \E c \in Calls :
          \/ StoreCallCreate(c)
          \/ StoreCallUpdate(c)
          \/ StoreCallDelete(c)
          \/ StoreResume(c)
          \/ StoreWriteChunk(c)
          \/ StoreWriteClose(c)
    \/ Crash

SpecStore == InitStore /\ [][NextStore]_vars

\* the same calls on a collection whose file may not be there at first
InitOpen ==
    /\ users = SeedUsers
    /\ products = SeedProducts(MaxStock)
    /\ orders = <<>>
    /\ handlers = [h \in Handlers |-> Idle]
    /\ stock0 = [p \in {"p1"} |-> MaxStock]
    /\ reqlog = [h \in Handlers |-> NoRequest]
    /\ disk \in {NoFile, SeedFile}
    /\ calls = [c \in Calls |-> NoCall]
    /\ crashed = FALSE

SpecOpen == InitOpen /\ [][NextStore]_vars

\* ------------------------------------------------------------ specification

Init ==
    /\ users = SeedUsers
    /\ \E s \in 1..MaxStock : products = SeedProducts(s)
    /\ orders = <<>>
    /\ handlers = [h \in Handlers |-> Idle]
    /\ stock0 = [p \in {"p1"} |-> GetById(products, p).stock]
    /\ reqlog = [h \in Handlers |-> NoRequest]
    /\ StoreAtRest

Next ==
    \E h \in Handlers :
        \/ StartCreateOrder(h)
        \/ StartCancelOrder(h)
        \/ StartUpdateOrderStatus(h)
        \/ CreateOrderCheck(h)
        \/ CreateOrderRead(h)
        \/ CreateOrderWrite(h)
        \/ CreateOrderInsert(h)
        \/ UpdateOrderStatusGet(h)
        \/ UpdateOrderStatusWrite(h)
        \/ CancelOrderGet(h)
        \/ CancelOrderRead(h)
        \/ CancelOrderWrite(h)
        \/ CancelOrderStatus(h)

Spec == Init /\ [][Next]_vars

\* ---- get_orders, get_order (orders.py 15-75)
\* a read handler returns: the response (status, body) is handed to the
\* framework, which sends it
Responded(hr, outcome, result) ==
    [hr EXCEPT !.pc = "respond", !.outcome = outcome, !.result = result]

SendResponse(h) ==
    /\ handlers[h].pc = "respond"
    /\ Set(h, Finished(handlers[h].outcome))
    /\ UNCHANGED <<users, products, orders, stock0, reqlog, storeVars>>

\* the status values a get_orders request filters by ("" is no filter)
StatusFilters == {"", "pending"}

StartGetOrders(h) ==
    /\ MayStart(h)
    /\ \E sub \in Usernames, skip \in 0..MaxSkip, limit \in 1..MaxLimit,
          st \in StatusFilters :
          Authenticate(h, [Idle EXCEPT !.op = "get_orders", !.sub = sub,
                                      !.skip = skip, !.limit = limit,
                                      !.status = st])
    /\ UNCHANGED <<users, products, orders, stock0, reqlog, storeVars>>

StartGetOrder(h) ==
    /\ MayStart(h)
    /\ \E sub \in Usernames, oid \in 1..(MaxOrders + 1) :
          Authenticate(h, [Idle EXCEPT !.op = "get_order", !.sub = sub,
                                      !.order_id = oid])
    /\ UNCHANGED <<users, products, orders, stock0, reqlog, storeVars>>

\* orders[skip : skip + limit]
Slice(data, skip, limit) ==
    SubSeq(data, skip + 1, IF skip + limit < Len(data) THEN skip + limit
                           ELSE Len(data))

\* a faulty get_orders without the owner filter; C9 tells it apart from
\* GetOrdersResult
GetOrdersResultUnfiltered(data, current_user, skip, limit, status) ==
    LET matching == IF status # ""
                    THEN SelectSeq(data, LAMBDA o : o.status = status)
                    ELSE data
    IN  Slice(matching, skip, limit)

\* the list get_orders answers with, from the file content it read
GetOrdersResult(data, current_user, skip, limit, status) ==
    LET visible == IF current_user.role = "admin"
                   THEN data
                   ELSE DbFilter(data, "user_id", current_user.id)
        matching == IF status # ""
                    THEN SelectSeq(visible, LAMBDA o : o.status = status)
                    ELSE visible
    IN  Slice(matching, skip, limit)

GetOrdersList(h) ==
    /\ handlers[h].pc = "go_list"
    /\ LET hr == handlers[h]
       IN  Set(h, Responded(hr, "200",
                    GetOrdersResult(orders, hr.user, hr.skip, hr.limit,
                                    hr.status)))
    /\ UNCHANGED <<users, products, orders, stock0, reqlog, storeVars>>

\* the error get_order raises for the order it read, or ""
GetOrderGate(current_user, order) ==
    IF order = None THEN "404"
    ELSE IF current_user.role # "admin" /\ order.user_id # current_user.id
    THEN "403"
    ELSE ""

GetOrderGet(h) ==
    /\ handlers[h].pc = "goo_get"
    /\ LET hr    == handlers[h]
           order == GetById(orders, hr.order_id)
           err   == GetOrderGate(hr.user, order)
       IN  IF err # ""
           THEN Set(h, Responded(hr, err, <<>>))
           ELSE Set(h, Responded(hr, "200", <<order>>))
    /\ UNCHANGED <<users, products, orders, stock0, reqlog, storeVars>>

\* an order as create_order stored it for one unit of "p1" and as
\* update_order_status may have left it
StoredOrder(id, user_id, status) ==
    [id |-> id, user_id |-> user_id,
     items |-> <<[product_id |-> "p1", quantity |-> 1, price |-> 2]>>,
     status |-> status, total_amount |-> 2]

\* the readers run on a collection of orders that customers created
InitRead ==
    /\ users = SeedUsers
    /\ products = SeedProducts(MaxStock)
    /\ \E n \in 1..MaxOrders :
       \E owner \in [1..n -> {"u1", "u2"}],
          st \in [1..n -> {"pending", "completed"}] :
          /\ orders = [k \in 1..n |-> StoredOrder(k, owner[k], st[k])]
          /\ stock0 = [p \in {"p1"} |-> MaxStock + n]
    /\ handlers = [h \in Handlers |-> Idle]
    /\ reqlog = [h \in Handlers |-> NoRequest]
    /\ StoreAtRest

NextRead ==
    \E h \in Handlers :
        \/ StartGetOrders(h)
        \/ StartGetOrder(h)
        \/ GetOrdersList(h)
        \/ GetOrderGet(h)
        \/ SendResponse(h)

SpecRead == InitRead /\ [][NextRead]_vars

\* ---- status changes on stored orders: update_order_status by any
\* principal, beside cancel_order
StartStatusUpdate(h) ==
    /\ MayStart(h)
    /\ \E sub \in Usernames, oid \in 1..(MaxOrders + 1),
          st \in {"processing", "cancelled"} :
          /\ Logged(h, sub, "update_order_status", "")
          /\ Authenticate(h, [Idle EXCEPT !.op = "update_order_status",
                                          !.sub = sub, !.order_id = oid,
                                          !.status = st])
    /\ UNCHANGED <<users, products, orders, stock0, storeVars>>

NextStatus ==
    \E h \in Handlers :
        \/ StartStatusUpdate(h)
        \/ UpdateOrderStatusGet(h)
        \/ UpdateOrderStatusWrite(h)
        \/ StartCancelOrder(h)
        \/ CancelOrderGet(h)
        \/ CancelOrderRead(h)
        \/ CancelOrderWrite(h)
        \/ CancelOrderStatus(h)

SpecStatus == InitRead /\ [][NextStatus]_vars

\* ---- the concurrent creation race: every request is a create_order for one
\* item of product "p1", all may run together
RaceCustomers == {"alice", "bob"}

StartRaceOrder(h) ==
    /\ handlers[h].pc = "idle"
    /\ \A g \in 1..(h - 1) : handlers[g].pc # "idle"
    /\ \E sub \in RaceCustomers, q \in 1..MaxQty, price \in Prices :
          LET its == <<[product_id |-> "p1", quantity |-> q, price |-> price]>>
          IN  /\ Authenticate(h, [Idle EXCEPT !.op = "create_order",
                                              !.sub = sub, !.items = its])
              /\ reqlog' = [reqlog EXCEPT ![h] =
                     [sub |-> sub, items |-> its, payload_user_id |-> "",
                      op |-> "create_order", target |-> ""]]
    /\ UNCHANGED <<users, products, orders, stock0, storeVars>>

InitRace ==
    /\ users = SeedUsers
    /\ \E s \in 0..MaxStock : products = SeedProducts(s)
    /\ orders = <<>>
    /\ handlers = [h \in Handlers |-> Idle]
    /\ stock0 = [p \in {"p1"} |-> GetById(products, p).stock]
    /\ reqlog = [h \in Handlers |-> NoRequest]
    /\ StoreAtRest

NextRace ==
    \E h \in Handlers :
        \/ StartRaceOrder(h)
        \/ CreateOrderCheck(h)
        \/ CreateOrderRead(h)
        \/ CreateOrderWrite(h)
        \/ CreateOrderInsert(h)

SpecRace == InitRace /\ [][NextRace]_vars


\* ---- the user handlers (api/v1/auth.py, api/v1/users.py, api/v2/auth.py,
\* api/v2/users.py).  A user record here carries its email too; passwords
\* and full names are read by none of these handlers' checks.
WithEmail(user, email) == Merge(user, [email |-> email])

\* users.json after the startup seed and one registration
SeedAccounts == <<WithEmail(AdminUser, "e0"), WithEmail(AliceUser, "e1")>>

\* the bearer token of a request: jwt.decode fails (valid = FALSE) or gives
\* the claims, which may lack "sub"
Tokens ==
    {[valid |-> TRUE, has_sub |-> TRUE, sub |-> n] : n \in {"admin", "alice", "carol"}}
    \cup {[valid |-> FALSE, has_sub |-> FALSE, sub |-> ""],
          [valid |-> TRUE,  has_sub |-> FALSE, sub |-> ""]}

\* decode_token returned None or the payload has no subject:
\* get_current_user raises before any store call (dependencies.py 13-20)
TokenError(token) ==
    IF ~token.valid THEN "401"
    ELSE IF ~token.has_sub THEN "401"
    ELSE ""

\* the dependency chain on a token; then as Authenticate
AuthenticateToken(h, token, req) ==
    IF TokenError(token) # ""
    THEN Set(h, Finished(TokenError(token)))
    ELSE Authenticate(h, [req EXCEPT !.sub = token.sub])

\* the ids a request path names: the seeded users and the user the first
\* request registered
TargetIds == {"u0", "u1", ToString(1)}
Emails    == {"e1", "e2"}

\* GET /auth/me: the handler returns the resolved user, no store call
StartGetMe(h) ==
    /\ MayStart(h)
    /\ \E token \in Tokens :
          /\ Logged(h, token.sub, "get_me", "")
          /\ IF TokenError(token) # ""
             THEN Set(h, Finished(TokenError(token)))
             ELSE LET user == GetByField(users, "username", token.sub)
                      err  == AuthError(user, FALSE)
                  IN  Set(h, Finished(IF err # "" THEN err ELSE "200"))
    /\ UNCHANGED <<users, products, orders, stock0, storeVars>>

\* ---- register, register_v2 (v1/auth.py 19-56, v2/auth.py 18-68)
\* a faulty email check that finds nothing; C12 tells it apart from
\* ExistingEmail
ExistingEmailIgnored(data, email) == None

\* existing_user / existing_email
ExistingUser(data, username) == GetByField(data, "username", username)
ExistingEmail(data, email) == GetByField(data, "email", email)

\* user_data: the id is a fresh uuid4 (the request's own number here)
UserData(h, draft) ==
    [id |-> ToString(h), username |-> draft.username, email |-> draft.email,
     role |-> "user", is_active |-> TRUE]

\* the request arrives (no dependency) and resumes from
\* get_by_field("username", ...); strong says whether the password passes
\* register_v2's own validation
StartRegister(h) ==
    /\ MayStart(h)
    /\ \E op \in {"register", "register_v2"}, username \in {"alice", "carol"},
          email \in Emails, strong \in BOOLEAN :
          /\ (op = "register") => strong
          /\ Logged(h, username, op, email)
          /\ IF ExistingUser(users, username) # None
             THEN Set(h, Finished("409"))
             ELSE Set(h, [Idle EXCEPT !.op = op, !.pc = "rg_email",
                             !.draft = [username |-> username,
                                        email |-> email, strong |-> strong]])
    /\ UNCHANGED <<users, products, orders, stock0, storeVars>>

\* resumes from get_by_field("email", ...); up to the await of db.create
RegisterEmail(h) ==
    /\ handlers[h].pc = "rg_email"
    /\ LET hr == handlers[h]
       IN  IF ExistingEmail(users, hr.draft.email) # None
           THEN Set(h, Finished("409"))
           ELSE IF hr.op = "register_v2" /\ ~hr.draft.strong
           THEN Set(h, Finished("400"))
           ELSE Set(h, [hr EXCEPT !.pc = "rg_create",
                                  !.draft = UserData(h, hr.draft)])
    /\ UNCHANGED <<users, products, orders, stock0, reqlog, storeVars>>

RegisterCreate(h) ==
    /\ handlers[h].pc = "rg_create"
    /\ users' = DbCreate(users, handlers[h].draft)
    /\ Set(h, Finished("201"))
    /\ UNCHANGED <<products, orders, stock0, reqlog, storeVars>>

\* ---- update_user (v1/users.py 61-94)
StartUpdateUser(h) ==
    /\ MayStart(h)
    /\ \E token \in Tokens, target \in TargetIds, email \in {"e1"} :
          /\ Logged(h, token.sub, "update_user", target)
          /\ AuthenticateToken(h, token,
              [Idle EXCEPT !.op = "update_user", !.target = target,
                           !.draft = [email |-> email]])
    /\ UNCHANGED <<users, products, orders, stock0, storeVars>>

UpdateUserGet(h) ==
    /\ handlers[h].pc = "uu_get"
    /\ LET hr   == handlers[h]
           user == GetById(users, hr.target)
       IN  IF user = None
           THEN Set(h, Finished("404"))
           ELSE IF hr.user.role # "admin" /\ hr.user.id # hr.target
           THEN Set(h, Finished("403"))
           ELSE Set(h, [hr EXCEPT !.pc = "uu_write"])
    /\ UNCHANGED <<users, products, orders, stock0, reqlog, storeVars>>

\* updated_user = await db.update(...); UserResponse(**None) raises
\* TypeError when the record is gone: the request ends in a 500
UpdateUserWrite(h) ==
    /\ handlers[h].pc = "uu_write"
    /\ users' = DbUpdate(users, handlers[h].target, handlers[h].draft)
    /\ Set(h, Finished(IF GetById(users, handlers[h].target) = None
                       THEN "500" ELSE "200"))
    /\ UNCHANGED <<products, orders, stock0, reqlog, storeVars>>

\* ---- delete_user (v1/users.py 96-115)
\* a faulty gate without the self check; C13 tells it apart from
\* DeleteUserGate
DeleteUserGateNoSelfCheck(current_user, user, user_id) ==
    IF user = None THEN "404" ELSE ""

\* the error delete_user raises for the record it read, or ""
DeleteUserGate(current_user, user, user_id) ==
    IF user = None THEN "404"
    ELSE IF current_user.id = user_id THEN "403"
    ELSE ""

StartDeleteUser(h) ==
    /\ MayStart(h)
    /\ \E token \in Tokens, target \in TargetIds :
          /\ Logged(h, token.sub, "delete_user", target)
          /\ AuthenticateToken(h, token,
              [Idle EXCEPT !.op = "delete_user", !.target = target])
    /\ UNCHANGED <<users, products, orders, stock0, storeVars>>

DeleteUserGet(h) ==
    /\ handlers[h].pc = "du_get"
    /\ LET hr  == handlers[h]
           err == DeleteUserGate(hr.user, GetById(users, hr.target), hr.target)
       IN  IF err # ""
           THEN Set(h, Finished(err))
           ELSE Set(h, [hr EXCEPT !.pc = "du_write"])
    /\ UNCHANGED <<users, products, orders, stock0, reqlog, storeVars>>

DeleteUserWrite(h) ==
    /\ handlers[h].pc = "du_write"
    /\ users' = DbDelete(users, handlers[h].target)
    /\ Set(h, Finished("204"))
    /\ UNCHANGED <<products, orders, stock0, reqlog, storeVars>>

\* ---- deactivate_user, activate_user (v2/users.py 135-178)
\* the error deactivate_user raises for the record it read, or ""
DeactivateUserGate(current_user, user, user_id) ==
    IF user = None THEN "404"
    ELSE IF current_user.id = user_id THEN "400"
    ELSE ""

StartDeactivateUser(h) ==
    /\ MayStart(h)
    /\ \E token \in Tokens, target \in TargetIds :
          /\ Logged(h, token.sub, "deactivate_user", target)
          /\ AuthenticateToken(h, token,
              [Idle EXCEPT !.op = "deactivate_user", !.target = target])
    /\ UNCHANGED <<users, products, orders, stock0, storeVars>>

DeactivateUserGet(h) ==
    /\ handlers[h].pc = "de_get"
    /\ LET hr  == handlers[h]
           err == DeactivateUserGate(hr.user, GetById(users, hr.target),
                                     hr.target)
       IN  IF err # ""
           THEN Set(h, Finished(err))
           ELSE Set(h, [hr EXCEPT !.pc = "de_write"])
    /\ UNCHANGED <<users, products, orders, stock0, reqlog, storeVars>>

DeactivateUserWrite(h) ==
    /\ handlers[h].pc = "de_write"
    /\ users' = DbUpdate(users, handlers[h].target, [is_active |-> FALSE])
    /\ Set(h, Finished("200"))
    /\ UNCHANGED <<products, orders, stock0, reqlog, storeVars>>

StartActivateUser(h) ==
    /\ MayStart(h)
    /\ \E token \in Tokens, target \in TargetIds :
          /\ Logged(h, token.sub, "activate_user", target)
          /\ AuthenticateToken(h, token,
              [Idle EXCEPT !.op = "activate_user", !.target = target])
    /\ UNCHANGED <<users, products, orders, stock0, storeVars>>

ActivateUserGet(h) ==
    /\ handlers[h].pc = "ac_get"
    /\ LET hr == handlers[h]
       IN  IF GetById(users, hr.target) = None
           THEN Set(h, Finished("404"))
           ELSE Set(h, [hr EXCEPT !.pc = "ac_write"])
    /\ UNCHANGED <<users, products, orders, stock0, reqlog, storeVars>>

ActivateUserWrite(h) ==
    /\ handlers[h].pc = "ac_write"
    /\ users' = DbUpdate(users, handlers[h].target, [is_active |-> TRUE])
    /\ Set(h, Finished("200"))
    /\ UNCHANGED <<products, orders, stock0, reqlog, storeVars>>

InitUsers ==
    /\ users = SeedAccounts
    /\ products = SeedProducts(MaxStock)
    /\ orders = <<>>
    /\ handlers = [h \in Handlers |-> Idle]
    /\ stock0 = [p \in {"p1"} |-> MaxStock]
    /\ reqlog = [h \in Handlers |-> NoRequest]
    /\ StoreAtRest

NextUsers ==
    \E h \in Handlers :
        \/ StartGetMe(h)
        \/ StartRegister(h)
        \/ RegisterEmail(h)
        \/ RegisterCreate(h)
        \/ StartUpdateUser(h)
        \/ UpdateUserGet(h)
        \/ UpdateUserWrite(h)
        \/ StartDeleteUser(h)
        \/ DeleteUserGet(h)
        \/ DeleteUserWrite(h)
        \/ StartDeactivateUser(h)
        \/ DeactivateUserGet(h)
        \/ DeactivateUserWrite(h)
        \/ StartActivateUser(h)
        \/ ActivateUserGet(h)
        \/ ActivateUserWrite(h)

SpecUsers == InitUsers /\ [][NextUsers]_vars

\* the same requests on a users.json that holds two admins (the handlers
\* never make a second admin: the file was given one from outside)
InitAdmins ==
    /\ users = <<WithEmail(AdminUser, "e0"),
                 WithEmail([AliceUser EXCEPT !.role = "admin"], "e1")>>
    /\ products = SeedProducts(MaxStock)
    /\ orders = <<>>
    /\ handlers = [h \in Handlers |-> Idle]
    /\ stock0 = [p \in {"p1"} |-> MaxStock]
    /\ reqlog = [h \in Handlers |-> NoRequest]
    /\ StoreAtRest

SpecAdmins == InitAdmins /\ [][NextUsers]_vars

\* ---- the product handlers (api/v1/products.py 65-121) beside create_order
\* and cancel_order.  A product record here carries its name too, which
\* stands for the fields no order handler writes (name, description, price,
\* category).
NamedProduct(id, name, stock) == [id |-> id, name |-> name, stock |-> stock]

\* ProductCreate bodies and ProductUpdate bodies (exclude_unset: only the
\* fields the client sent)
ProductDrafts  == {[name |-> "n2", stock |-> 1]}
ProductUpdates == {[stock |-> MaxStock], [name |-> "n2"]}
ProductTargets == {"p1", ToString(1)}
Shoppers       == {"admin", "alice"}

\* product_data: the id is a fresh uuid4 (the request's own number here)
ProductData(h, draft) == NamedProduct(ToString(h), draft.name, draft.stock)

\* history: an admin gave product id the stock s
StockSet(id, s) ==
    stock0' = [p \in (DOMAIN stock0) \cup {id} |->
                  IF p = id THEN s ELSE stock0[p]]

StartCreateProduct(h) ==
    /\ MayStart(h)
    /\ \E sub \in Shoppers, draft \in ProductDrafts :
          /\ Logged(h, sub, "create_product", "")
          /\ Authenticate(h, [Idle EXCEPT !.op = "create_product",
                                          !.sub = sub, !.draft = draft])
    /\ UNCHANGED <<users, products, orders, stock0, storeVars>>

CreateProductInsert(h) ==
    /\ handlers[h].pc = "cp_insert"
    /\ products' = DbCreate(products, ProductData(h, handlers[h].draft))
    /\ StockSet(ToString(h), handlers[h].draft.stock)
    /\ Set(h, Finished("201"))
    /\ UNCHANGED <<users, orders, reqlog, storeVars>>

StartUpdateProduct(h) ==
    /\ MayStart(h)
    /\ \E sub \in Shoppers, target \in ProductTargets, upd \in ProductUpdates :
          /\ Logged(h, sub, "update_product", target)
          /\ Authenticate(h, [Idle EXCEPT !.op = "update_product",
                                          !.sub = sub, !.target = target,
                                          !.draft = upd])
    /\ UNCHANGED <<users, products, orders, stock0, storeVars>>

UpdateProductGet(h) ==
    /\ handlers[h].pc = "up_get"
    /\ LET hr == handlers[h]
       IN  IF GetById(products, hr.target) = None
           THEN Set(h, Finished("404"))
           ELSE Set(h, [hr EXCEPT !.pc = "up_write"])
    /\ UNCHANGED <<users, products, orders, stock0, reqlog, storeVars>>

\* updated_product = await db.update(...); ProductResponse(**None) raises
\* TypeError when the record is gone: the request ends in a 500
UpdateProductWrite(h) ==
    /\ handlers[h].pc = "up_write"
    /\ LET hr == handlers[h]
       IN  /\ products' = DbUpdate(products, hr.target, hr.draft)
           /\ IF GetById(products, hr.target) = None
              THEN Set(h, Finished("500")) /\ stock0' = stock0
              ELSE /\ Set(h, Finished("200"))
                   /\ IF "stock" \in DOMAIN hr.draft
                      THEN StockSet(hr.target, hr.draft.stock)
                      ELSE stock0' = stock0
    /\ UNCHANGED <<users, orders, reqlog, storeVars>>

StartDeleteProduct(h) ==
    /\ MayStart(h)
    /\ \E sub \in Shoppers, target \in ProductTargets :
          /\ Logged(h, sub, "delete_product", target)
          /\ Authenticate(h, [Idle EXCEPT !.op = "delete_product",
                                          !.sub = sub, !.target = target])
    /\ UNCHANGED <<users, products, orders, stock0, storeVars>>

DeleteProductGet(h) ==
    /\ handlers[h].pc = "dp_get"
    /\ LET hr == handlers[h]
       IN  IF GetById(products, hr.target) = None
           THEN Set(h, Finished("404"))
           ELSE Set(h, [hr EXCEPT !.pc = "dp_write"])
    /\ UNCHANGED <<users, products, orders, stock0, reqlog, storeVars>>

DeleteProductWrite(h) ==
    /\ handlers[h].pc = "dp_write"
    /\ products' = DbDelete(products, handlers[h].target)
    /\ Set(h, Finished("204"))
    /\ UNCHANGED <<users, orders, stock0, reqlog, storeVars>>

\* alice orders product "p1", in one item or in two
StartShopOrder(h) ==
    /\ MayStart(h)
    /\ \E its \in {<<[product_id |-> "p1", quantity |-> 1, price |-> 2]>>,
                  <<[product_id |-> "p1", quantity |-> 1, price |-> 2],
                    [product_id |-> "p1", quantity |-> 1, price |-> 2]>>} :
          /\ Logged(h, "alice", "create_order", "")
          /\ Authenticate(h, [Idle EXCEPT !.op = "create_order",
                                          !.sub = "alice", !.items = its])
    /\ UNCHANGED <<users, products, orders, stock0, storeVars>>

StartShopCancel(h) ==
    /\ MayStart(h)
    /\ \E oid \in 1..2 :
          /\ Logged(h, "alice", "cancel_order", "")
          /\ Authenticate(h, [Idle EXCEPT !.op = "cancel_order",
                                          !.sub = "alice", !.order_id = oid])
    /\ UNCHANGED <<users, products, orders, stock0, storeVars>>

InitProducts ==
    /\ users = SeedUsers
    /\ products = <<NamedProduct("p1", "n1", MaxStock)>>
    /\ orders = <<>>
    /\ handlers = [h \in Handlers |-> Idle]
    /\ stock0 = [p \in {"p1"} |-> MaxStock]
    /\ reqlog = [h \in Handlers |-> NoRequest]
    /\ StoreAtRest

NextProducts ==
    \E h \in Handlers :
        \/ StartCreateProduct(h)
        \/ CreateProductInsert(h)
        \/ StartUpdateProduct(h)
        \/ UpdateProductGet(h)
        \/ UpdateProductWrite(h)
        \/ StartDeleteProduct(h)
        \/ DeleteProductGet(h)
        \/ DeleteProductWrite(h)
        \/ StartShopOrder(h)
        \/ CreateOrderCheck(h)
        \/ CreateOrderRead(h)
        \/ CreateOrderWrite(h)
        \/ StartShopCancel(h)
        \/ CancelOrderGet(h)
        \/ CancelOrderRead(h)
        \/ CancelOrderWrite(h)
        \/ CancelOrderStatus(h)
        \/ CreateOrderInsert(h)

SpecProducts == InitProducts /\ [][NextProducts]_vars

\* ---- get_user, get_user_activity (v1/users.py 38-59, v2/users.py 97-133)
\* a faulty gate that lets every active principal through; C29 tells it
\* apart from OwnerGate
OwnerGateOpen(current_user, user, user_id) ==
    IF user = None THEN "404" ELSE ""

\* the error the handler raises for the record it read, or "": the record
\* must exist, and the principal be an admin or the record's user
OwnerGate(current_user, user, user_id) ==
    IF user = None THEN "404"
    ELSE IF current_user.role # "admin" /\ current_user.id # user_id
    THEN "403"
    ELSE ""

\* UserResponse(**user): the response model keeps its declared fields and
\* drops the others (hashed_password among them)
UserResponse(user) ==
    [f \in (DOMAIN user) \cap {"username", "email", "full_name", "id",
                                "role", "is_active", "created_at"}
        |-> user[f]]

\* the tokens of the two seeded accounts
AccountTokens == {t \in Tokens : t.sub \in {"admin", "alice"}}

StartGetUser(h) ==
    /\ MayStart(h)
    /\ \E token \in AccountTokens, target \in TargetIds :
          /\ Logged(h, token.sub, "get_user", target)
          /\ AuthenticateToken(h, token,
              [Idle EXCEPT !.op = "get_user", !.target = target])
    /\ UNCHANGED <<users, products, orders, stock0, storeVars>>

GetUserGet(h) ==
    /\ handlers[h].pc = "gu_get"
    /\ LET hr   == handlers[h]
           user == GetById(users, hr.target)
           err  == OwnerGate(hr.user, user, hr.target)
       IN  IF err # ""
           THEN Set(h, Finished(err))
           ELSE Set(h, [Finished("200") EXCEPT
                           !.result = <<UserResponse(user)>>])
    /\ UNCHANGED <<users, products, orders, stock0, reqlog, storeVars>>

StartGetUserActivity(h) ==
    /\ MayStart(h)
    /\ \E token \in AccountTokens, target \in TargetIds :
          /\ Logged(h, token.sub, "get_user_activity", target)
          /\ AuthenticateToken(h, token,
              [Idle EXCEPT !.op = "get_user_activity", !.target = target])
    /\ UNCHANGED <<users, products, orders, stock0, storeVars>>

GetUserActivityGet(h) ==
    /\ handlers[h].pc = "ga_get"
    /\ LET hr   == handlers[h]
           user == GetById(users, hr.target)
           err  == OwnerGate(hr.user, user, hr.target)
       IN  IF err # ""
           THEN Set(h, Finished(err))
           ELSE Set(h, [hr EXCEPT !.draft = user, !.pc = "ga_orders"])
    /\ UNCHANGED <<users, products, orders, stock0, reqlog, storeVars>>

\* orders = await db_orders.filter(user_id=user_id); return the summary
GetUserActivityOrders(h) ==
    /\ handlers[h].pc = "ga_orders"
    /\ LET hr   == handlers[h]
           mine == DbFilter(orders, "user_id", hr.target)
       IN  Set(h, [Finished("200") EXCEPT !.result =
                      <<[user_id |-> hr.target,
                         username |-> hr.draft.username,
                         total_orders |-> Len(mine),
                         pending_orders |->
                             Len(DbFilter(mine, "status", "pending"))]>>])
    /\ UNCHANGED <<users, products, orders, stock0, reqlog, storeVars>>

StartAccountUpdate(h) ==
    /\ MayStart(h)
    /\ \E token \in AccountTokens, target \in TargetIds :
          /\ Logged(h, token.sub, "update_user", target)
          /\ AuthenticateToken(h, token,
              [Idle EXCEPT !.op = "update_user", !.target = target,
                           !.draft = [email |-> "e2"]])
    /\ UNCHANGED <<users, products, orders, stock0, storeVars>>

StartAccountDelete(h) ==
    /\ MayStart(h)
    /\ \E target \in {"u1"} :
          /\ Logged(h, "admin", "delete_user", target)
          /\ Authenticate(h, [Idle EXCEPT !.op = "delete_user",
                                          !.sub = "admin", !.target = target])
    /\ UNCHANGED <<users, products, orders, stock0, storeVars>>

InitOwner ==
    /\ users = SeedAccounts
    /\ products = SeedProducts(MaxStock)
    /\ orders = <<StoredOrder(1, "u1", "pending")>>
    /\ handlers = [h \in Handlers |-> Idle]
    /\ stock0 = [p \in {"p1"} |-> MaxStock]
    /\ reqlog = [h \in Handlers |-> NoRequest]
    /\ StoreAtRest

NextOwner ==
    \E h \in Handlers :
        \/ StartGetUser(h)
        \/ GetUserGet(h)
        \/ StartGetUserActivity(h)
        \/ GetUserActivityGet(h)
        \/ GetUserActivityOrders(h)
        \/ StartAccountUpdate(h)
        \/ UpdateUserGet(h)
        \/ UpdateUserWrite(h)
        \/ StartAccountDelete(h)
        \/ DeleteUserGet(h)
        \/ DeleteUserWrite(h)

SpecOwner == InitOwner /\ [][NextOwner]_vars

\* ---- login, login_json, login_v2 (v1/auth.py 58-116, v2/auth.py 70-114)
\* get_password_hash: the sha256 digest of the password
GetPasswordHash(password) == <<"sha256", password>>

\* a faulty verify_password that accepts every password; C30 tells it apart
\* from VerifyPassword
VerifyPasswordAny(plain_password, hashed_password) == TRUE

\* verify_password: the digest of the given password is the stored one
VerifyPassword(plain_password, hashed_password) ==
    GetPasswordHash(plain_password) = hashed_password

\* dict.get(key, default)
Get(rec, key, default) == IF key \in DOMAIN rec THEN rec[key] ELSE default

\* create_access_token: the claims and an expiry, signed; the token stands
\* for its payload here
CreateAccessToken(data) == Merge(data, [exp |-> "later"])

\* users.json with alice active and bob deactivated, each with a password
LoginAccounts ==
    <<Merge(AliceUser, [hashed_password |-> GetPasswordHash("pw1")]),
      Merge([BobUser EXCEPT !.is_active = FALSE],
            [hashed_password |-> GetPasswordHash("pw2")])>>

LoginOps   == {"login", "login_json", "login_v2"}
LoginNames == {"alice", "bob", "carol"}
Passwords  == {"pw1", "pw2"}
UserAgents == {"", "ua"}

\* the error the login handlers raise for the record they read, or ""
LoginError(user_data, password) ==
    IF user_data = None THEN "401"
    ELSE IF ~VerifyPassword(password, user_data.hashed_password) THEN "401"
    ELSE IF ~Get(user_data, "is_active", TRUE) THEN "401"
    ELSE ""

\* the request arrives and get_by_field("username", ...) resumes; login and
\* login_json answer at once, login_v2 goes on to its update
StartLogin(h) ==
    /\ MayStart(h)
    /\ \E op \in LoginOps, username \in LoginNames, password \in Passwords,
          user_agent \in UserAgents :
          LET user_data == GetByField(users, "username", username)
              err       == LoginError(user_data, password)
          IN  /\ op # "login_v2" => user_agent = ""
              /\ Logged(h, username, op, password)
              /\ IF err # ""
                 THEN Set(h, Finished(err))
                 ELSE IF op = "login_v2"
                 THEN Set(h, [Idle EXCEPT
                         !.op = op, !.sub = username, !.user = user_data,
                         !.pc = "lg_write",
                         !.draft =
                             [last_login |-> h,
                              login_count |->
                                  Get(user_data, "login_count", 0) + 1,
                              last_device |-> IF user_agent = ""
                                              THEN "Unknown"
                                              ELSE user_agent]])
                 ELSE Set(h, [Finished("200") EXCEPT !.result =
                         <<CreateAccessToken([sub |-> user_data.username])>>])
    /\ UNCHANGED <<users, products, orders, stock0, storeVars>>

\* login_v2: await db.update(user_data["id"], {...}); the token is made of
\* the record read before
LoginWrite(h) ==
    /\ handlers[h].pc = "lg_write"
    /\ LET hr == handlers[h]
       IN  /\ users' = DbUpdate(users, hr.user.id, hr.draft)
           /\ Set(h, [Finished("200") EXCEPT !.result =
                  <<CreateAccessToken([sub |-> hr.user.username,
                                       role |-> hr.user.role,
                                       user_id |-> hr.user.id])>>])
    /\ UNCHANGED <<products, orders, stock0, reqlog, storeVars>>

InitLogin ==
    /\ users = LoginAccounts
    /\ products = SeedProducts(MaxStock)
    /\ orders = <<>>
    /\ handlers = [h \in Handlers |-> Idle]
    /\ stock0 = [p \in {"p1"} |-> MaxStock]
    /\ reqlog = [h \in Handlers |-> NoRequest]
    /\ StoreAtRest

NextLogin ==
    \E h \in Handlers :
        \/ StartLogin(h)
        \/ LoginWrite(h)

SpecLogin == InitLogin /\ [][NextLogin]_vars

\* ---- requests that try for more than their principal may have: bodies
\* with role and is_active keys, tokens with a role claim
\* a faulty UserUpdate that keeps every key of the body; C34 tells it apart
\* from UserUpdate
UserUpdateAllowExtra(payload) == payload

\* UserUpdate(**payload).dict(exclude_unset=True): the declared fields the
\* client sent; pydantic drops every other key
UserUpdate(payload) ==
    [f \in (DOMAIN payload) \cap {"email", "full_name", "password"}
        |-> payload[f]]

\* UserCreate(**payload): the declared fields, every other key dropped
UserCreate(payload) ==
    [f \in (DOMAIN payload) \cap {"username", "email", "full_name",
                                   "password"}
        |-> payload[f]]

\* update_data: a password is replaced by its hash
UpdateData(user_update) ==
    IF "password" \in DOMAIN user_update
    THEN Merge([f \in (DOMAIN user_update) \ {"password"} |-> user_update[f]],
               [hashed_password |-> GetPasswordHash(user_update.password)])
    ELSE user_update

\* the tokens of this part: the admin's, and tokens whose subject is alice
\* or an unknown user and whose claims say role admin (create_access_token
\* of login_v2 puts a role claim in; the dependencies never read it)
ClaimTokens ==
    {[valid |-> TRUE, has_sub |-> TRUE, sub |-> "admin", role |-> "admin"]}
    \cup {[valid |-> TRUE, has_sub |-> TRUE, sub |-> n, role |-> "admin"] :
              n \in {"alice", "carol"}}

UpdatePayloads ==
    {[email |-> "e2"],
     [email |-> "e2", role |-> "admin"],
     [role |-> "admin", is_active |-> FALSE],
     [password |-> "pw2", role |-> "admin"]}

RegisterPayloads ==
    {[username |-> "carol", email |-> "e3", password |-> "pw1"],
     [username |-> "carol", email |-> "e3", password |-> "pw1",
      role |-> "admin", is_active |-> FALSE]}

\* register and register_v2 with such a body; its password passes
\* register_v2's validation
StartClaimedRegister(h) ==
    /\ MayStart(h)
    /\ \E op \in {"register", "register_v2"}, payload \in RegisterPayloads :
          LET user == UserCreate(payload)
          IN  /\ Logged(h, user.username, op, user.email)
              /\ IF ExistingUser(users, user.username) # None
                 THEN Set(h, Finished("409"))
                 ELSE Set(h, [Idle EXCEPT !.op = op, !.pc = "rg_email",
                                !.draft = Merge(user, [strong |-> TRUE])])
    /\ UNCHANGED <<users, products, orders, stock0, storeVars>>

StartClaimedUpdate(h) ==
    /\ MayStart(h)
    /\ \E token \in ClaimTokens, target \in {"u0", "u1"},
          payload \in UpdatePayloads :
          /\ Logged(h, token.sub, "update_user", target)
          /\ AuthenticateToken(h, token,
                [Idle EXCEPT !.op = "update_user", !.target = target,
                             !.draft = UpdateData(UserUpdate(payload))])
    /\ UNCHANGED <<users, products, orders, stock0, storeVars>>

StartClaimedAdminOp(h) ==
    /\ MayStart(h)
    /\ \E token \in ClaimTokens, target \in {"u0", "u1"},
          op \in {"delete_user", "deactivate_user", "activate_user"} :
          /\ Logged(h, token.sub, op, target)
          /\ AuthenticateToken(h, token,
                [Idle EXCEPT !.op = op, !.target = target])
    /\ UNCHANGED <<users, products, orders, stock0, storeVars>>

InitEscalate ==
    /\ users = SeedAccounts
    /\ products = SeedProducts(MaxStock)
    /\ orders = <<>>
    /\ handlers = [h \in Handlers |-> Idle]
    /\ stock0 = [p \in {"p1"} |-> MaxStock]
    /\ reqlog = [h \in Handlers |-> NoRequest]
    /\ StoreAtRest

NextEscalate ==
    \E h \in Handlers :
        \/ StartClaimedRegister(h)
        \/ RegisterEmail(h)
        \/ RegisterCreate(h)
        \/ StartClaimedUpdate(h)
        \/ UpdateUserGet(h)
        \/ UpdateUserWrite(h)
        \/ StartClaimedAdminOp(h)
        \/ DeleteUserGet(h)
        \/ DeleteUserWrite(h)
        \/ DeactivateUserGet(h)
        \/ DeactivateUserWrite(h)
        \/ ActivateUserGet(h)
        \/ ActivateUserWrite(h)

SpecEscalate == InitEscalate /\ [][NextEscalate]_vars

\* ---- alice's create_order while the admin deletes or deactivates her
\* account
InitStale ==
    /\ users = SeedUsers
    /\ products = SeedProducts(MaxStock)
    /\ orders = <<>>
    /\ handlers = [h \in Handlers |-> Idle]
    /\ stock0 = [p \in {"p1"} |-> MaxStock]
    /\ reqlog = [h \in Handlers |-> NoRequest]
    /\ StoreAtRest

NextStale ==
    \E h \in Handlers :
        \/ StartShopOrder(h)
        \/ CreateOrderCheck(h)
        \/ CreateOrderRead(h)
        \/ CreateOrderWrite(h)
        \/ CreateOrderInsert(h)
        \/ StartAccountDelete(h)
        \/ DeleteUserGet(h)
        \/ DeleteUserWrite(h)
        \/ StartDeactivateUser(h)
        \/ DeactivateUserGet(h)
        \/ DeactivateUserWrite(h)

SpecStale == InitStale /\ [][NextStale]_vars

\* ---- the order handlers one request at a time: create_order, cancel_order
\* and the admin's delete_product, each run to its end before the next
\* request arrives
\* request h may start and no other request is under way
Serial(h) == MayStart(h) /\ InFlight = {}

\* history: what request h asked for, and the products and orders
\* collections as they were when it arrived
Snapshot(h, sub, op, target, items) ==
    reqlog' = [reqlog EXCEPT ![h] =
                  [sub |-> sub, items |-> items, payload_user_id |-> "",
                   op |-> op, target |-> target,
                   products0 |-> products, orders0 |-> orders]]

StartSerialOrder(h) ==
    /\ Serial(h)
    /\ \E sub \in {"alice"}, its \in ItemLists :
          /\ Snapshot(h, sub, "create_order", "", its)
          /\ Authenticate(h, [Idle EXCEPT !.op = "create_order",
                                          !.sub = sub, !.items = its])
    /\ UNCHANGED <<users, products, orders, stock0, storeVars>>

StartSerialCancel(h) ==
    /\ Serial(h)
    /\ \E sub \in Usernames, oid \in Handlers :
          /\ Snapshot(h, sub, "cancel_order", "", <<>>)
          /\ Authenticate(h, [Idle EXCEPT !.op = "cancel_order",
                                          !.sub = sub, !.order_id = oid])
    /\ UNCHANGED <<users, products, orders, stock0, storeVars>>

StartSerialDelete(h) ==
    /\ Serial(h)
    /\ \E target \in ProductIds :
          /\ Snapshot(h, "admin", "delete_product", target, <<>>)
          /\ Authenticate(h, [Idle EXCEPT !.op = "delete_product",
                                          !.sub = "admin", !.target = target])
    /\ UNCHANGED <<users, products, orders, stock0, storeVars>>

InitSerial ==
    /\ users = SeedUsers
    /\ \E s \in 1..MaxStock :
          products = <<[id |-> "p1", stock |-> s], [id |-> "p2", stock |-> 1]>>
    /\ orders = <<>>
    /\ handlers = [h \in Handlers |-> Idle]
    /\ stock0 = [p \in ProductIds |-> GetById(products, p).stock]
    /\ reqlog = [h \in Handlers |-> NoRequest]
    /\ StoreAtRest

NextSerial ==
    \E h \in Handlers :
        \/ StartSerialOrder(h)
        \/ CreateOrderCheck(h)
        \/ CreateOrderRead(h)
        \/ CreateOrderWrite(h)
        \/ CreateOrderInsert(h)
        \/ StartSerialCancel(h)
        \/ CancelOrderGet(h)
        \/ CancelOrderRead(h)
        \/ CancelOrderWrite(h)
        \/ CancelOrderStatus(h)
        \/ StartSerialDelete(h)
        \/ DeleteProductGet(h)
        \/ DeleteProductWrite(h)

SpecSerial == InitSerial /\ [][NextSerial]_vars

\* ------------------------------------------------------------------ claims
Min(a, b) == IF a < b THEN a ELSE b
Max(a, b) == IF a > b THEN a ELSE b

RECURSIVE SumQty(_, _)
\* the quantity of product p over an item list
SumQty(items, p) ==
    IF items = <<>> THEN 0
    ELSE (IF Head(items).product_id = p THEN Head(items).quantity ELSE 0)
         + SumQty(Tail(items), p)

RECURSIVE Reserved(_, _)
\* the quantity of product p over the orders of os that are not cancelled
Reserved(os, p) ==
    IF os = <<>> THEN 0
    ELSE (IF Head(os).status # "cancelled" THEN SumQty(Head(os).items, p) ELSE 0)
         + Reserved(Tail(os), p)

StockOf(p) == GetById(products, p).stock

AllDone   == \A h \in Handlers : handlers[h].pc = "done"
Succeeded == {h \in Handlers : handlers[h].outcome = "201"}
Rejected  == {h \in Handlers : handlers[h].outcome = "400"}
AllAskOne == \A h \in Handlers :
                 /\ Len(reqlog[h].items) = 1
                 /\ reqlog[h].items[1].product_id = "p1"
                 /\ reqlog[h].items[1].quantity = 1

\* C1: with K units of a product and N create_order requests for 1 unit each,
\* run in any interleaving, exactly min(N,K) succeed, the other N - min(N,K)
\* fail with BadRequestError (400) and the final stock is max(0, K - N).
C1_ConcurrentCreateRace ==
    (AllDone /\ AllAskOne) =>
        /\ Cardinality(Succeeded) = Min(NumHandlers, stock0["p1"])
        /\ Cardinality(Rejected) = NumHandlers - Min(NumHandlers, stock0["p1"])
        /\ StockOf("p1") = Max(0, stock0["p1"] - NumHandlers)

\* C2: in every reachable state every product record has stock >= 0.
C2_StockNeverNegative ==
    \A k \in 1..Len(products) : products[k].stock >= 0

\* C3: stock conservation: in every reachable state, for every product, its
\* stock plus the quantities of it in the orders that are not cancelled equals
\* the stock last set for it by the seed or an admin.
C3_StockConservation ==
    \A k \in 1..Len(products) :
        products[k].stock + Reserved(orders, products[k].id)
            = stock0[products[k].id]

\* C4: inventory transactions appear atomic: no create_order is suspended
\* with a stock decrement written while its order is not in the orders
\* collection, and no cancel_order is suspended with a stock restored while
\* the order's status is not cancelled.
C4_InventoryAtomic ==
    \A h \in Handlers :
        /\ (handlers[h].op = "create_order" /\ handlers[h].writes > 0)
              => GetById(orders, h) # None
        /\ (handlers[h].op = "cancel_order" /\ handlers[h].writes > 0)
              => GetById(orders, handlers[h].order_id).status = "cancelled"

\* C5: no stock adjustment is lost: when two create_order requests for
\* quantities q1 and q2 of one product run (in any interleaving) and both
\* succeed, the final stock is the initial stock minus q1 minus q2.
C5_NoLostDecrement ==
    ( /\ handlers[1].outcome = "201"
      /\ handlers[2].outcome = "201"
      /\ \A h \in Handlers \ {1, 2} : handlers[h].pc = "idle" )
    => StockOf("p1") = stock0["p1"] - reqlog[1].items[1].quantity
                                    - reqlog[2].items[1].quantity

\* the id of the user record a token subject names
IdOfSubject(sub) == (CHOOSE u \in {AdminUser, AliceUser, BobUser} : u.username = sub).id

\* C8: immutable ownership: in every reachable state every order's user_id
\* is the id of the principal whose request created it (whatever user_id the
\* payload carried, and whatever operations ran on the order since).
C8_OwnerIsCreator ==
    \A k \in 1..Len(orders) :
        orders[k].user_id = IdOfSubject(reqlog[orders[k].id].sub)

\* C8 witness: an order created by bob, whose payload named the admin's id,
\* is stored as bob's after update_order_status has changed it.
C8_Witness ==
    \E k \in 1..Len(orders) :
        /\ orders[k].user_id = "u2"
        /\ reqlog[orders[k].id].sub = "bob"
        /\ reqlog[orders[k].id].payload_user_id = "u0"
        /\ orders[k].status = "processing"

\* the handler that takes the step
Acts(h) == handlers'[h] # handlers[h]

\* C10: cancel gate.  A step of a non-admin's cancel_order changes orders or
\* products only when the order is the principal's own and its status is
\* pending; at the gate a non-admin's cancel of another user's order ends
\* with ForbiddenError (403) and of an own order that is not pending with
\* BadRequestError (400), both changing nothing; an admin's cancel of an
\* existing order passes the gate in any status and ends with 204.
C10_CancelGate ==
    [][\A h \in Handlers :
        (Acts(h) /\ handlers[h].op = "cancel_order") =>
            LET hr    == handlers[h]
                order == GetById(orders, hr.order_id)
                admin == hr.user.role = "admin"
                own   == order # None /\ order.user_id = hr.user.id
            IN  /\ (~admin /\ (orders' # orders \/ products' # products))
                      => (own /\ order.status = "pending")
                /\ (hr.pc = "ca_get" /\ ~admin /\ order # None /\ ~own)
                      => (handlers'[h] = Finished("403")
                          /\ UNCHANGED <<orders, products>>)
                /\ (hr.pc = "ca_get" /\ ~admin /\ own /\ order.status # "pending")
                      => (handlers'[h] = Finished("400")
                          /\ UNCHANGED <<orders, products>>)
                /\ (hr.pc = "ca_get" /\ admin /\ order # None)
                      => handlers'[h].pc = "ca_read"
                /\ (hr.pc # "ca_get" /\ handlers'[h].pc = "done")
                      => handlers'[h].outcome = "204"
      ]_vars

\* the orders of data a request's status filter keeps
Matching(data, status) ==
    SelectSeq(data, LAMBDA o : status = "" \/ o.status = status)

Range(seq) == {seq[k] : k \in 1..Len(seq)}

\* the response the handler hands over in this step
Answers(h, op) ==
    /\ handlers[h].op = op
    /\ handlers[h].pc # "respond"
    /\ handlers'[h].pc = "respond"

\* C9 (as the claim states it): a non-admin's get_orders returns only own
\* orders and its get_order of another user's order fails with
\* ForbiddenError; an admin's get_orders returns all orders and its get_order
\* succeeds on every existing order.
C9_ReadIsolationOriginal ==
    [][\A h \in Handlers :
        LET hr    == handlers[h]
            res   == handlers'[h].result
            code  == handlers'[h].outcome
            order == GetById(orders, hr.order_id)
        IN  /\ (Answers(h, "get_orders") /\ hr.user.role # "admin")
                  => \A o \in Range(res) : o.user_id = hr.user.id
            /\ (Answers(h, "get_orders") /\ hr.user.role = "admin")
                  => res = orders
            /\ (Answers(h, "get_order") /\ order # None)
                  => IF hr.user.role # "admin" /\ order.user_id # hr.user.id
                     THEN code = "403" /\ res = <<>>
                     ELSE code = "200" /\ res = <<order>>
      ]_vars

\* C9 (amended): as above, except that get_orders answers with one page of
\* the orders that match its status filter: a non-admin gets the page
\* skip..skip+limit of its own matching orders, an admin the same page of
\* all matching orders, whoever owns them (hence every order when no filter
\* is given, skip is 0 and limit is not below the number of orders).
C9_ReadIsolation ==
    [][\A h \in Handlers :
        LET hr    == handlers[h]
            res   == handlers'[h].result
            code  == handlers'[h].outcome
            order == GetById(orders, hr.order_id)
            own   == SelectSeq(orders, LAMBDA o : o.user_id = hr.user.id)
        IN  /\ (Answers(h, "get_orders") /\ hr.user.role # "admin")
                  => /\ \A o \in Range(res) : o.user_id = hr.user.id
                     /\ res = Slice(Matching(own, hr.status), hr.skip, hr.limit)
            /\ (Answers(h, "get_orders") /\ hr.user.role = "admin")
                  => /\ res = Slice(Matching(orders, hr.status), hr.skip, hr.limit)
                     /\ (hr.status = "" /\ hr.skip = 0 /\ hr.limit >= Len(orders))
                           => res = orders
            /\ (Answers(h, "get_order") /\ order # None)
                  => IF hr.user.role # "admin" /\ order.user_id # hr.user.id
                     THEN code = "403" /\ res = <<>>
                     ELSE code = "200" /\ res = <<order>>
      ]_vars

\* C9 witness: a non-admin has been refused another user's order while an
\* admin is answered with orders of two different owners.
C9_Witness ==
    \E h, g \in Handlers :
        /\ handlers[h].pc = "respond" /\ handlers[h].op = "get_order"
        /\ handlers[h].user.role # "admin" /\ handlers[h].outcome = "403"
        /\ handlers[g].pc = "respond" /\ handlers[g].op = "get_orders"
        /\ handlers[g].user.role = "admin"
        /\ \E a, b \in Range(handlers[g].result) : a.user_id # b.user_id

\* ---- C6, C7: the store
\* what a call is to do to a collection and to return, stated on its own
FirstWithId(data, id) ==
    CHOOSE k \in 1..Len(data) :
        data[k].id = id /\ \A j \in 1..(k - 1) : data[j].id # id

HasId(data, id) == \E k \in 1..Len(data) : data[k].id = id

Patched(rec, upd) ==
    [a |-> IF "a" \in DOMAIN upd THEN upd.a ELSE rec.a,
     b |-> IF "b" \in DOMAIN upd THEN upd.b ELSE rec.b,
     id |-> rec.id]

Effect(data, call) ==
    CASE call.op = "create" -> data \o <<call.item>>
      [] call.op = "update" ->
            [k \in 1..Len(data) |->
                IF HasId(data, call.id) /\ k = FirstWithId(data, call.id)
                THEN Patched(data[k], call.upd) ELSE data[k]]
      [] call.op = "delete" -> SelectSeq(data, LAMBDA r : r.id # call.id)

Answer(data, call) ==
    CASE call.op = "create" -> call.item
      [] call.op = "update" ->
            IF HasId(data, call.id)
            THEN Patched(data[FirstWithId(data, call.id)], call.upd)
            ELSE None
      [] call.op = "delete" -> [deleted |-> HasId(data, call.id)]

RECURSIVE SerialRun(_, _, _)
\* the calls ord[k], ord[k+1], ... run one after the other on data return
\* what the calls returned and leave the file's content
SerialRun(ord, k, data) ==
    IF k > Len(ord) THEN data = disk.recs
    ELSE /\ calls[ord[k]].ret = Answer(data, calls[ord[k]])
         /\ SerialRun(ord, k + 1, Effect(data, calls[ord[k]]))

DoneCalls == {c \in Calls : calls[c].pc = "done"}

\* the orders in which the finished calls can have run
Orders(S) == {ord \in [1..Cardinality(S) -> S] :
                 \A i, j \in 1..Cardinality(S) : i # j => ord[i] # ord[j]}

\* C6: the store is linearizable per collection: whenever no write is under
\* way, the file holds the result of running the finished create, update and
\* delete calls one after the other in some order, each returning what it
\* returned (so no call's effect is lost).
C6_Linearizable ==
    (\A c \in Calls : calls[c].pc # "writing") =>
        /\ disk.complete
        /\ \E ord \in Orders(DoneCalls) : SerialRun(ord, 1, SeedFile.recs)

\* C6 witness: two update calls on different fields of the seed record were
\* both suspended before either wrote, every call has finished, and the
\* record carries both fields.
C6_Witness ==
    /\ DoneCalls = Calls
    /\ \E c, d \in Calls :
          /\ calls[c].op = "update" /\ calls[c].id = 0 /\ calls[c].upd = [a |-> 1]
          /\ calls[d].op = "update" /\ calls[d].id = 0 /\ calls[d].upd = [b |-> 1]
          /\ calls[c].snap = <<SeedRecord>> /\ calls[d].snap = <<SeedRecord>>
    /\ HasId(disk.recs, 0)
    /\ disk.recs[FirstWithId(disk.recs, 0)] = [id |-> 0, a |-> 1, b |-> 1]

\* C7: writes are crash-atomic: after a crash at any point the collection
\* file is a complete JSON text (the previous content or the new one),
\* never a truncated, empty or partly written file.
C7_CrashAtomicWrite == crashed => disk.complete

\* ---- C24, C26, C27, C28: the store's calls one by one
\* the call resumes from its sleep in this step: it reads the file, and
\* what it writes is in its buffer
Resumes(c) == calls[c].pc = "sleep" /\ calls'[c].pc # "sleep"

\* the call's write is closed in this step
Closes(c) == calls[c].pc = "writing" /\ calls'[c].pc = "done"

\* how many of the first n records of data carry the id
RECURSIVE CountId(_, _, _)
CountId(data, id, n) ==
    IF n = 0 THEN 0
    ELSE CountId(data, id, n - 1) + (IF data[n].id = id THEN 1 ELSE 0)

\* C24: update(id, fields) on a present id changes only the named fields of
\* the record with that id: the call writes a collection of the same length
\* in which every record but the first one with the id is as it was read,
\* and that one has the named fields set and its other fields as read; the
\* call returns that merged record, and the file holds what was written
\* when the write is closed.
C24_UpdateFrame ==
    [][\A c \in Calls :
        /\ ( /\ Resumes(c) /\ calls[c].op = "update"
             /\ HasId(disk.recs, calls[c].id) )
              => LET data == disk.recs
                     new  == calls'[c].buf
                     upd  == calls[c].upd
                     k    == FirstWithId(data, calls[c].id)
                 IN  /\ calls'[c].pc = "writing"
                     /\ Len(new) = Len(data)
                     /\ \A j \in 1..Len(data) : j # k => new[j] = data[j]
                     /\ DOMAIN new[k] = DOMAIN data[k]
                     /\ \A f \in DOMAIN data[k] :
                           new[k][f] = IF f \in DOMAIN upd THEN upd[f]
                                       ELSE data[k][f]
                     /\ calls'[c].ret = new[k]
        /\ (Closes(c) /\ calls[c].op = "update")
              => (disk'.recs = calls[c].buf /\ disk'.complete)
      ]_vars

\* C24 witness: an update of field a on id 0 has returned the merged record
\* while the collection holds another record besides, which still has its
\* fields as created.
C24_Witness ==
    \E c, d \in Calls :
        /\ calls[c].pc = "done" /\ calls[c].op = "update"
        /\ calls[c].id = 0 /\ calls[c].upd = [a |-> 1]
        /\ calls[c].ret = [id |-> 0, a |-> 1, b |-> 0]
        /\ calls[d].pc = "done" /\ calls[d].op = "create"
        /\ calls[d].item.id = d
        /\ disk.complete
        /\ disk.recs = <<[id |-> 0, a |-> 1, b |-> 0]>>
                          \o <<[id |-> d, a |-> 0, b |-> 0]>>

\* C26: create(record) on an id that is already present writes nothing, and
\* no collection ever holds two records with the same id.
C26_CreateConflict ==
    [][ /\ \A c \in Calls :
              ( /\ Resumes(c) /\ calls[c].op = "create"
                /\ HasId(disk.recs, calls[c].item.id) )
                  => (calls'[c].pc = "done" /\ disk' = disk)
        /\ disk'.complete =>
              \A j, k \in 1..Len(disk'.recs) :
                  j # k => disk'.recs[j].id # disk'.recs[k].id
      ]_vars

\* C27: delete(id) with a record of that id present returns true and writes
\* the collection without the records of that id, the other records as
\* they were and in their order; with none present it returns false and
\* writes nothing.
C27_DeleteFrame ==
    [][\A c \in Calls :
        /\ (Resumes(c) /\ calls[c].op = "delete")
              => LET data == disk.recs
                     new  == calls'[c].buf
                     id   == calls[c].id
                 IN  IF HasId(data, id)
                     THEN /\ calls'[c].pc = "writing"
                          /\ calls'[c].ret = [deleted |-> TRUE]
                          /\ Len(new) = Len(data) - CountId(data, id, Len(data))
                          /\ \A j \in 1..Len(data) :
                                data[j].id # id =>
                                    new[j - CountId(data, id, j)] = data[j]
                     ELSE /\ calls'[c].pc = "done"
                          /\ calls'[c].ret = [deleted |-> FALSE]
                          /\ disk' = disk
        /\ (Closes(c) /\ calls[c].op = "delete")
              => (disk'.recs = calls[c].buf /\ disk'.complete)
      ]_vars

\* C27 witness: a create has added a second record with id 0, a delete of
\* id 0 returned true and a later delete of id 0 returned false; no record
\* is left.
C27_Witness ==
    \E c, d, e \in Calls :
        /\ calls[c].pc = "done" /\ calls[c].op = "create"
        /\ calls[c].item.id = 0
        /\ calls[d].pc = "done" /\ calls[d].op = "delete" /\ calls[d].id = 0
        /\ calls[d].ret = [deleted |-> TRUE]
        /\ calls[e].pc = "done" /\ calls[e].op = "delete" /\ calls[e].id = 0
        /\ calls[e].ret = [deleted |-> FALSE]
        /\ disk.complete /\ disk.recs = <<>>

\* C28: opening a store handle initialises the collection to empty only
\* when it is absent and never alters an existing collection: in the step
\* in which a handler opens its handle and makes its call, a file that is
\* there stays as it is, whatever the other calls under way, and a file
\* that is not there becomes the empty collection; a file that is there
\* never goes away.
C28_OpenKeepsContent ==
    [][ /\ \A c \in Calls :
              (calls[c].pc = "idle" /\ calls'[c].pc # "idle")
                  => disk' = (IF disk.exists THEN disk ELSE EmptyFile)
        /\ disk.exists => disk'.exists
      ]_vars

\* C28 witness: the file was absent; the first create opened it empty, a
\* second handle was opened while the first call was still suspended, and a
\* third after the first had written; the file holds all three records.
C28_Witness ==
    /\ \A c \in Calls : calls[c].pc = "done" /\ calls[c].op = "create"
    /\ calls[1].snap = <<>> /\ calls[2].snap = <<>>
    /\ Len(calls[3].snap) = 1
    /\ disk.complete /\ Len(disk.recs) = NumCalls
    /\ \A k \in 1..Len(disk.recs) : disk.recs[k].id # 0

\* ---------------------------------------------------------- claims on users
RegisterOps == {"register", "register_v2"}

\* the request starts in this step (its principal is resolved, or, for a
\* registration, its username looked up)
Starts(h) == handlers[h].pc = "idle" /\ handlers'[h].pc # "idle"

\* C11: uniqueness: in every reachable state no two records of the users
\* collection share a username and no two share an email.
C11_Uniqueness ==
    \A j, k \in 1..Len(users) :
        j # k => /\ users[j].username # users[k].username
                 /\ users[j].email # users[k].email

\* C12: a register call whose username belongs to an existing user when
\* the call looks it up, or whose email does when the call looks that up,
\* fails with ConflictError (409) and leaves the users collection as it was.
C12_RegisterConflict ==
    [][\A h \in Handlers :
        /\ ( /\ Starts(h)
             /\ reqlog'[h].op \in RegisterOps
             /\ GetByField(users, "username", reqlog'[h].sub) # None )
              => (handlers'[h] = Finished("409") /\ users' = users)
        /\ ( /\ Acts(h)
             /\ handlers[h].pc = "rg_email"
             /\ GetByField(users, "email", reqlog[h].target) # None )
              => (handlers'[h] = Finished("409") /\ users' = users)
        /\ (Acts(h) /\ handlers'[h].outcome = "409") => users' = users
      ]_vars

\* C12 witness: one registration was refused for its username, another,
\* whose username is free, for its email; the collection is as seeded.
C12_Witness ==
    \E h, g \in Handlers :
        /\ reqlog[h].op \in RegisterOps /\ handlers[h].outcome = "409"
        /\ GetByField(users, "username", reqlog[h].sub) # None
        /\ reqlog[g].op \in RegisterOps /\ handlers[g].outcome = "409"
        /\ GetByField(users, "username", reqlog[g].sub) = None
        /\ GetByField(users, "email", reqlog[g].target) # None
        /\ users = SeedAccounts

\* C13: no self-harm.  An admin's delete_user on their own id ends with
\* ForbiddenError (403) and their deactivate_user on their own id with
\* BadRequestError (400), both changing nothing, and the admin's record
\* stays present and active; a delete_user by a non-admin principal (on any
\* id, their own included) ends with 403 and changes nothing; a record
\* leaves the collection only by an admin's delete_user on another id.
C13_NoSelfHarm ==
    [][\A h \in Handlers :
        LET hr == handlers[h]
            pr == GetByField(users, "username", reqlog'[h].sub)
        IN  /\ (Acts(h) /\ hr.pc = "du_get" /\ hr.user.id = hr.target)
                  => (handlers'[h] = Finished("403") /\ users' = users)
            /\ (Acts(h) /\ hr.pc = "de_get" /\ hr.user.id = hr.target)
                  => (handlers'[h] = Finished("400") /\ users' = users)
            /\ ( /\ Starts(h)
                 /\ reqlog'[h].op = "delete_user"
                 /\ pr # None /\ pr.is_active /\ pr.role # "admin" )
                  => (handlers'[h] = Finished("403") /\ users' = users)
            /\ (Acts(h) /\ Len(users') < Len(users))
                  => ( /\ hr.op = "delete_user"
                       /\ hr.user.role = "admin"
                       /\ hr.target # hr.user.id )
            /\ LET admin == GetById(users', "u0")
               IN  admin # None /\ admin.is_active
      ]_vars

\* C13 witness: the admin's delete and deactivate of their own id and
\* alice's delete of her own id have all been refused.
C13_Witness ==
    \E h, g, k \in Handlers :
        /\ reqlog[h] = [sub |-> "admin", items |-> <<>>, payload_user_id |-> "",
                        op |-> "delete_user", target |-> "u0"]
        /\ handlers[h].outcome = "403"
        /\ reqlog[g] = [sub |-> "admin", items |-> <<>>, payload_user_id |-> "",
                        op |-> "deactivate_user", target |-> "u0"]
        /\ handlers[g].outcome = "400"
        /\ reqlog[k] = [sub |-> "alice", items |-> <<>>, payload_user_id |-> "",
                        op |-> "delete_user", target |-> "u1"]
        /\ handlers[k].outcome = "403"
        /\ users = SeedAccounts

\* the handlers that depend on the principal resolver
AuthenticatedOps == {"get_me", "update_user", "delete_user",
                     "deactivate_user", "activate_user"}

\* C17: principal resolution.  An authenticated action whose token is
\* invalid or has no subject (logged as subject ""), or whose subject names
\* no user record, ends with UnauthorizedError (401); one whose subject
\* resolves to a record with is_active false ends with ForbiddenError (403);
\* none of these changes a collection.  deactivate_user's write leaves its
\* target inactive (or absent), and a record goes from inactive to active
\* only by activate_user's write on its id: so from the completion of
\* deactivate_user(u) to that of activate_user(u) every request that
\* resolves to u is rejected.
C17_PrincipalResolution ==
    [][\A h \in Handlers :
        LET hr == handlers[h]
            pr == GetByField(users, "username", reqlog'[h].sub)
        IN  /\ (Starts(h) /\ reqlog'[h].op \in AuthenticatedOps)
                  => /\ (reqlog'[h].sub = "" \/ pr = None)
                        => ( /\ handlers'[h] = Finished("401")
                             /\ UNCHANGED <<users, products, orders>> )
                     /\ (pr # None /\ ~pr.is_active)
                        => ( /\ handlers'[h] = Finished("403")
                             /\ UNCHANGED <<users, products, orders>> )
            /\ (Acts(h) /\ hr.pc = "de_write")
                  => LET u == GetById(users', hr.target)
                     IN  u = None \/ ~u.is_active
            /\ Acts(h)
                  => \A j \in 1..Len(users), k \in 1..Len(users') :
                        ( /\ users[j].id = users'[k].id
                          /\ ~users[j].is_active
                          /\ users'[k].is_active )
                        => (hr.pc = "ac_write" /\ hr.target = users[j].id)
      ]_vars

\* C17 witness: the admin's deactivate_user of alice has completed, alice's
\* next request was refused with 403, and a request without a usable token
\* with 401.
C17_Witness ==
    \E h, g, k \in Handlers :
        /\ h < g
        /\ reqlog[h] = [sub |-> "admin", items |-> <<>>, payload_user_id |-> "",
                        op |-> "deactivate_user", target |-> "u1"]
        /\ handlers[h].outcome = "200"
        /\ reqlog[g].sub = "alice" /\ reqlog[g].op = "get_me"
        /\ handlers[g].outcome = "403"
        /\ reqlog[k].sub = "" /\ reqlog[k].op = "get_me"
        /\ handlers[k].outcome = "401"
        /\ GetById(users, "u1") # None
        /\ ~GetById(users, "u1").is_active

\* C25: an update on an id that is absent at the time of the write fails
\* with NotFoundError (404) and leaves the collection unchanged: when
\* update_user, deactivate_user or activate_user reaches its store update
\* and the target record has been deleted since the handler read it, the
\* request ends with 404 and the users are as they were.
C25_UpdateAbsent ==
    [][\A h \in Handlers :
        ( /\ Acts(h)
          /\ handlers[h].pc \in {"uu_write", "de_write", "ac_write"}
          /\ GetById(users, handlers[h].target) = None )
            => (handlers'[h] = Finished("404") /\ users' = users)
      ]_vars

\* C29: user-record ownership gate.  When get_user, update_user or
\* get_user_activity reads an existing target record, a principal who is
\* not an admin and whose id is not the target's is refused with
\* ForbiddenError (403) and the users are unchanged; a principal naming its
\* own id, and an admin naming any existing id, passes: get_user answers
\* 200 with the record, update_user goes on to its write, which stores the
\* fields and answers 200 (the record still being there), and
\* get_user_activity goes on to the orders and answers 200.  No update_user
\* of another principal's record by a non-admin ever changes the users.
C29_OwnershipGate ==
    [][\A h \in Handlers :
        LET hr  == handlers[h]
            p   == hr.user
            tgt == GetById(users, hr.target)
        IN  /\ ( /\ Acts(h)
                 /\ hr.pc \in {"gu_get", "uu_get", "ga_get"}
                 /\ tgt # None )
                  => IF p.role # "admin" /\ p.id # hr.target
                     THEN handlers'[h] = Finished("403") /\ users' = users
                     ELSE CASE hr.pc = "gu_get" ->
                                 /\ handlers'[h].outcome = "200"
                                 /\ handlers'[h].result = <<UserResponse(tgt)>>
                            [] hr.pc = "uu_get" ->
                                 handlers'[h].pc = "uu_write"
                            [] hr.pc = "ga_get" ->
                                 handlers'[h].pc = "ga_orders"
            /\ (Acts(h) /\ hr.pc = "uu_write" /\ tgt # None)
                  => ( /\ handlers'[h] = Finished("200")
                       /\ GetById(users', hr.target).email = hr.draft.email )
            /\ (Acts(h) /\ hr.pc = "ga_orders")
                  => handlers'[h].outcome = "200"
            /\ (Acts(h) /\ hr.op = "update_user" /\ users' # users)
                  => (p.role = "admin" \/ p.id = hr.target)
      ]_vars

\* C29 witness: alice's get_user of the admin's record was refused with
\* 403, her update_user of her own record answered 200 and stored the new
\* email, and the admin's get_user_activity of alice's record answered 200.
C29_Witness ==
    \E h, g, f \in Handlers :
        /\ reqlog[h] = [NoRequest EXCEPT !.sub = "alice", !.op = "get_user",
                                         !.target = "u0"]
        /\ handlers[h].outcome = "403"
        /\ reqlog[g] = [NoRequest EXCEPT !.sub = "alice",
                                         !.op = "update_user",
                                         !.target = "u1"]
        /\ handlers[g].outcome = "200"
        /\ reqlog[f] = [NoRequest EXCEPT !.sub = "admin",
                                         !.op = "get_user_activity",
                                         !.target = "u1"]
        /\ handlers[f].outcome = "200"
        /\ GetById(users, "u1") # None
        /\ GetById(users, "u1").email = "e2"

\* C30: a login (login, login_json, login_v2) issues a token only when the
\* username exists, the password's digest is the stored one and the account
\* is active; otherwise (unknown username and wrong password included) it
\* ends with UnauthorizedError (401).  The step that checks the credentials
\* writes nothing; the only write of a login is login_v2's after a
\* successful check, which sets last_login, login_count and last_device of
\* that user's record and nothing else.
C30_Login ==
    [][\A h \in Handlers :
        LET hr == handlers[h]
        IN  /\ (Starts(h) /\ reqlog'[h].op \in LoginOps)
                  => LET u  == GetByField(users, "username", reqlog'[h].sub)
                         ok == /\ u # None
                               /\ u.hashed_password
                                      = GetPasswordHash(reqlog'[h].target)
                               /\ u.is_active
                     IN  /\ users' = users
                         /\ IF ~ok
                            THEN handlers'[h] = Finished("401")
                            ELSE IF reqlog'[h].op = "login_v2"
                            THEN /\ handlers'[h].pc = "lg_write"
                                 /\ handlers'[h].result = <<>>
                            ELSE /\ handlers'[h].outcome = "200"
                                 /\ Len(handlers'[h].result) = 1
                                 /\ handlers'[h].result[1].sub = u.username
            /\ (Acts(h) /\ hr.pc = "lg_write")
                  => /\ handlers'[h].outcome = "200"
                     /\ Len(handlers'[h].result) = 1
                     /\ handlers'[h].result[1].sub = reqlog[h].sub
                     /\ Len(users') = Len(users)
                     /\ \A k \in 1..Len(users) :
                           /\ users[k].username # reqlog[h].sub
                                 => users'[k] = users[k]
                           /\ users[k].username = reqlog[h].sub
                                 => /\ users'[k].login_count > 0
                                    /\ users'[k].last_login = h
                                    /\ \A f \in DOMAIN users[k] \
                                          {"last_login", "login_count",
                                           "last_device"} :
                                          users'[k][f] = users[k][f]
            /\ (Acts(h) /\ users' # users) => hr.pc = "lg_write"
            /\ (Acts(h) /\ handlers'[h].result # <<>>)
                  => handlers'[h].outcome = "200"
      ]_vars

\* C30 witness: alice's login with a wrong password and bob's login_v2 on
\* his deactivated account both ended with 401, and alice's login_v2 with
\* her password ended with 200; only her record carries a login count.
C30_Witness ==
    \E h, g, f \in Handlers :
        /\ reqlog[h] = [NoRequest EXCEPT !.sub = "alice", !.op = "login",
                                         !.target = "pw2"]
        /\ handlers[h].outcome = "401"
        /\ reqlog[g] = [NoRequest EXCEPT !.sub = "bob", !.op = "login_v2",
                                         !.target = "pw2"]
        /\ handlers[g].outcome = "401"
        /\ reqlog[f] = [NoRequest EXCEPT !.sub = "alice", !.op = "login_v2",
                                         !.target = "pw1"]
        /\ handlers[f].outcome = "200"
        /\ Get(users[1], "login_count", 0) = 1
        /\ "login_count" \notin DOMAIN users[2]

NonAdmin(hr) ==
    \/ hr.op \in RegisterOps
    \/ (hr.user # None /\ hr.user.role # "admin")

\* C34: no privilege escalation.  Whatever the request body and the token's
\* claims say: a step of a handler that runs for a non-admin principal, or
\* of a registration, keeps every user record in the collection with its
\* role and is_active as they were, and a record it adds has role user and
\* is_active true; and a request to an admin-only operation whose subject's
\* stored role is not admin is refused with 403 although its token claims
\* the role admin.
C34_NoEscalation ==
    [][\A h \in Handlers :
        LET hr == handlers[h]
        IN  /\ (Acts(h) /\ NonAdmin(hr))
                  => /\ \A k \in 1..Len(users) :
                           \E j \in 1..Len(users') :
                               /\ users'[j].id = users[k].id
                               /\ users'[j].role = users[k].role
                               /\ users'[j].is_active = users[k].is_active
                     /\ \A j \in 1..Len(users') :
                           GetById(users, users'[j].id) = None
                               => ( /\ users'[j].role = "user"
                                    /\ users'[j].is_active = TRUE )
            /\ ( /\ Starts(h)
                 /\ AdminOnly(reqlog'[h].op)
                 /\ LET u == GetByField(users, "username", reqlog'[h].sub)
                    IN  u # None /\ u.is_active /\ u.role # "admin" )
                  => (handlers'[h] = Finished("403") /\ users' = users)
      ]_vars

\* C34 witness: carol's registration with role admin in its body stored a
\* record with role user; alice's update_user of her own record with role
\* admin in its body answered 200 and stored the email only; and alice's
\* delete_user of the admin, her token claiming role admin, was refused.
C34_Witness ==
    \E h, g, f \in Handlers :
        /\ reqlog[h].op = "register_v2" /\ handlers[h].outcome = "201"
        /\ reqlog[g] = [NoRequest EXCEPT !.sub = "alice",
                                         !.op = "update_user",
                                         !.target = "u1"]
        /\ handlers[g].outcome = "200"
        /\ reqlog[f] = [NoRequest EXCEPT !.sub = "alice",
                                         !.op = "delete_user",
                                         !.target = "u0"]
        /\ handlers[f].outcome = "403"
        /\ Len(users) = 3
        /\ users[1].role = "admin" /\ users[1].is_active
        /\ users[2] = [WithEmail(AliceUser, "e2") EXCEPT !.role = "user"]
        /\ users[3].username = "carol" /\ users[3].role = "user"
        /\ users[3].is_active

\* C35: no mutation is committed on behalf of a principal whose account is
\* inactive, deleted or (for an admin-only action) no longer admin at the
\* moment of the write: when a handler reaches a store write (create_order's
\* stock update and insert, delete_user's and deactivate_user's write) and
\* its caller's record is by then gone, deactivated or without the role,
\* the step leaves every collection as it was.
C35_NoStaleWrite ==
    [][\A h \in Handlers :
        LET hr == handlers[h]
        IN  ( /\ Acts(h)
              /\ hr.pc \in {"co_write", "co_insert", "du_write", "de_write"}
              /\ LET p == GetById(users, hr.user.id)
                 IN  \/ p = None
                     \/ ~p.is_active
                     \/ (AdminOnly(hr.op) /\ p.role # "admin") )
            => ( /\ users' = users /\ products' = products
                 /\ orders' = orders )
      ]_vars

\* --------------------------------------------------------- claims on orders
\* C14: update_order_status is admin-only.  Issued by a non-admin principal
\* (the order's owner included) it ends with ForbiddenError (403) and leaves
\* the orders unchanged; issued by an admin on an existing order it goes on
\* to its write, which stores the requested status and ends with 200.
C14_StatusAdminOnly ==
    [][\A h \in Handlers :
        LET hr == handlers[h]
            pr == GetByField(users, "username", reqlog'[h].sub)
        IN  /\ ( /\ Starts(h)
                 /\ reqlog'[h].op = "update_order_status"
                 /\ pr.role # "admin" )
                  => (handlers'[h] = Finished("403") /\ orders' = orders)
            /\ ( /\ Starts(h)
                 /\ reqlog'[h].op = "update_order_status"
                 /\ pr.role = "admin" )
                  => handlers'[h].pc = "us_get"
            /\ ( /\ Acts(h) /\ hr.pc = "us_get"
                 /\ GetById(orders, hr.order_id) # None )
                  => handlers'[h].pc = "us_write"
            /\ (Acts(h) /\ hr.pc = "us_write")
                  => ( /\ handlers'[h] = Finished("200")
                       /\ GetById(orders', hr.order_id).status = hr.status )
            /\ (Acts(h) /\ hr.op = "update_order_status" /\ orders' # orders)
                  => hr.user.role = "admin"
      ]_vars

\* C14 witness: the owner's update_order_status of an order was refused and
\* the admin's has stored a new status.
C14_Witness ==
    \E h, g \in Handlers :
        /\ reqlog[h].op = "update_order_status"
        /\ reqlog[h].sub \in {"alice", "bob"}
        /\ handlers[h].outcome = "403"
        /\ reqlog[g].op = "update_order_status" /\ reqlog[g].sub = "admin"
        /\ handlers[g].outcome = "200"
        /\ \E k \in 1..Len(orders) : orders[k].status = "processing"

\* C21: admin status changes are not validated against the current state.
\* An update_order_status that passed the admin gate finds the order
\* whatever its status and goes on to its write; the write ends with 200,
\* sets the order's status to the requested one whatever the two are, and
\* leaves the order's other fields, the other orders and the whole products
\* collection as they were (no stock is restored or taken).
C21_StatusUnvalidated ==
    [][\A h \in Handlers :
        LET hr == handlers[h]
        IN  /\ ( /\ Acts(h) /\ hr.pc = "us_get"
                 /\ GetById(orders, hr.order_id) # None )
                  => ( /\ handlers'[h].pc = "us_write"
                       /\ orders' = orders /\ products' = products )
            /\ ( /\ Acts(h) /\ hr.pc = "us_write"
                 /\ GetById(orders, hr.order_id) # None )
                  => ( /\ handlers'[h] = Finished("200")
                       /\ products' = products
                       /\ Len(orders') = Len(orders)
                       /\ \A k \in 1..Len(orders) :
                             orders'[k] =
                                 IF orders[k].id = hr.order_id
                                 THEN [orders[k] EXCEPT !.status = hr.status]
                                 ELSE orders[k] )
      ]_vars

\* C21 witness: an order was cancelled by its owner (204), which restored
\* its stock, and an admin's update_order_status (200) then moved the
\* cancelled order to completed: the stock is still the restored one.
C21_Witness ==
    \E h, g \in Handlers :
        /\ handlers[h].pc = "done" /\ handlers[h].outcome = "204"
        /\ handlers[g].pc = "done" /\ handlers[g].outcome = "200"
        /\ \E k \in 1..Len(orders) :
              /\ orders[k].status = "completed"
              /\ Len(orders[k].items) > 0
        /\ StockOf("p1") = stock0["p1"]

\* the request's handler returns or raises in this step
Ends(h) == handlers[h].pc \notin {"idle", "done"} /\ handlers'[h].pc = "done"

\* C22: a create_order call, run from its arrival to its end with no other
\* request in between, fails with BadRequestError (400) and changes nothing
\* whenever some item names a product absent from the products read at its
\* arrival or asks for more than that product's stock; otherwise it
\* succeeds (201), every product's stock is lower by exactly the quantities
\* of the items that name it, and exactly one order is added.
C22_CreateOrderOutcome ==
    [][\A h \in Handlers :
        (Ends(h) /\ reqlog[h].op = "create_order")
          => LET P0  == reqlog[h].products0
                 O0  == reqlog[h].orders0
                 its == reqlog[h].items
                 bad == \E i \in 1..Len(its) :
                           LET p == GetById(P0, its[i].product_id)
                           IN  p = None \/ its[i].quantity > p.stock
             IN  IF bad
                 THEN /\ handlers'[h].outcome = "400"
                      /\ products' = P0 /\ orders' = O0
                 ELSE /\ handlers'[h].outcome = "201"
                      /\ Len(orders') = Len(O0) + 1
                      /\ SubSeq(orders', 1, Len(O0)) = O0
                      /\ orders'[Len(orders')].items = its
                      /\ Len(products') = Len(P0)
                      /\ \A k \in 1..Len(P0) :
                            products'[k] =
                                [P0[k] EXCEPT !.stock =
                                     @ - SumQty(its, P0[k].id)]
      ]_vars

\* C22 witness: one create_order for two products has succeeded and a
\* later one was refused with 400; the stock of both products is one lower
\* than at first and one order is stored.
C22_Witness ==
    \E h, g \in Handlers :
        /\ reqlog[h].op = "create_order" /\ handlers[h].outcome = "201"
        /\ SumQty(reqlog[h].items, "p1") = 1
        /\ SumQty(reqlog[h].items, "p2") = 1
        /\ reqlog[g].op = "create_order" /\ handlers[g].outcome = "400"
        /\ Len(orders) = 1
        /\ GetById(products, "p1") # None /\ GetById(products, "p2") # None
        /\ StockOf("p1") = stock0["p1"] - 1
        /\ StockOf("p2") = stock0["p2"] - 1

\* C23: a cancel_order call, run from its arrival to its end with no other
\* request in between, fails with NotFoundError (404) and changes nothing
\* when the order id is absent from the orders; when the caller is
\* authorized (an admin, or the owner of a pending order) it ends with 204,
\* the order's status is cancelled, every product that exists has the
\* quantities of the order's items that name it added to its stock, and
\* items whose product is gone are passed over.
C23_CancelOutcome ==
    [][\A h \in Handlers :
        (Ends(h) /\ reqlog[h].op = "cancel_order")
          => LET P0    == reqlog[h].products0
                 O0    == reqlog[h].orders0
                 id    == handlers[h].order_id
                 order == GetById(O0, id)
                 user  == GetByField(users, "username", reqlog[h].sub)
             IN  IF order = None
                 THEN /\ handlers'[h].outcome = "404"
                      /\ products' = P0 /\ orders' = O0
                 ELSE ( \/ user.role = "admin"
                        \/ (order.user_id = user.id
                               /\ order.status = "pending") )
                      => /\ handlers'[h].outcome = "204"
                         /\ Len(orders') = Len(O0)
                         /\ \A k \in 1..Len(O0) :
                               orders'[k] =
                                   IF O0[k].id = id
                                   THEN [O0[k] EXCEPT !.status = "cancelled"]
                                   ELSE O0[k]
                         /\ Len(products') = Len(P0)
                         /\ \A k \in 1..Len(P0) :
                               products'[k] =
                                   [P0[k] EXCEPT !.stock =
                                        @ + SumQty(order.items, P0[k].id)]
      ]_vars

\* C23 witness: an order for products p1 and p2 was created, p2 was then
\* deleted, and the order's cancel ended with 204: the order is cancelled,
\* p1 has its first stock again and p2 is still gone.
C23_Witness ==
    \E h \in Handlers :
        /\ reqlog[h].op = "cancel_order" /\ handlers[h].outcome = "204"
        /\ Len(orders) = 1
        /\ orders[1].status = "cancelled"
        /\ SumQty(orders[1].items, "p1") = 1
        /\ SumQty(orders[1].items, "p2") = 1
        /\ GetById(products, "p2") = None
        /\ GetById(products, "p1") # None
        /\ StockOf("p1") = stock0["p1"]

\* C31: for every order, whatever cancel_order calls run on it, its
\* quantities are added back to the stock at most once: a cancel_order
\* never writes restored stock for an order that is already stored as
\* cancelled, nor while another cancel_order of the same order is in its
\* restore loop.
C31_RestoreAtMostOnce ==
    [][\A h \in Handlers :
        (Acts(h) /\ handlers[h].pc = "ca_write" /\ products' # products)
          => /\ GetById(orders, handlers[h].order_id).status # "cancelled"
             /\ \A g \in Handlers \ {h} :
                   ~ ( /\ handlers[g].op = "cancel_order"
                       /\ handlers[g].order_id = handlers[h].order_id
                       /\ handlers[g].pc \in {"ca_read", "ca_write",
                                              "ca_status"} )
      ]_vars

\* C32: when the items of one create_order name a product more than once,
\* the request succeeds only if the sum of their quantities is within the
\* product's stock; otherwise it ends with BadRequestError (400) and the
\* stock is as it was when the request arrived.
C32_SumWithinStock ==
    [][\A h \in Handlers :
        (Ends(h) /\ reqlog[h].op = "create_order")
          => LET P0   == reqlog[h].products0
                 its  == reqlog[h].items
                 over == \E k \in 1..Len(P0) :
                             SumQty(its, P0[k].id) > P0[k].stock
             IN  over => ( /\ handlers'[h].outcome = "400"
                           /\ products' = P0 )
      ]_vars

\* the legal moves of the order lifecycle
LegalTransition(from, to) ==
    \/ from = "pending" /\ to = "processing"
    \/ from = "processing" /\ to = "completed"
    \/ from \in {"pending", "processing", "completed"} /\ to = "cancelled"

\* C15: order lifecycle: every order enters the collection with status
\* pending, and every later change of an order's status is a legal
\* transition (so a cancelled order never changes status again and a
\* completed one only moves to cancelled).
C15_OrderLifecycle ==
    [][ /\ \A k \in 1..Len(orders') :
              GetById(orders, orders'[k].id) = None
                  => orders'[k].status = "pending"
        /\ \A j \in 1..Len(orders), k \in 1..Len(orders') :
              (orders[j].id = orders'[k].id
                  /\ orders[j].status # orders'[k].status)
                  => LegalTransition(orders[j].status, orders'[k].status)
      ]_vars

\* C16: cancel-restore round trip: when request 1 is a create_order that
\* succeeded, request 2 the cancel_order of that order, which succeeded
\* (it can only have run after the create returned), and nothing else has
\* run, every product's stock is what it was before the create.
C16_CancelRestores ==
    ( /\ handlers[1].outcome = "201"
      /\ reqlog[1].op = "create_order"
      /\ handlers[2].outcome = "204"
      /\ \A h \in Handlers \ {1, 2} : handlers[h].pc = "idle" )
    => \A k \in 1..Len(products) :
           products[k].stock = stock0[products[k].id]

\* C16 witness: an order for two units has been created and cancelled, with
\* nothing else run, and the order is stored as cancelled.
C16_Witness ==
    /\ handlers[1].outcome = "201"
    /\ reqlog[1].op = "create_order"
    /\ SumQty(reqlog[1].items, "p1") = 2
    /\ handlers[2].outcome = "204"
    /\ \A h \in Handlers \ {1, 2} : handlers[h].pc = "idle"
    /\ GetById(orders, 1).status = "cancelled"

RECURSIVE SumSubtotals(_)
\* the sum over an item list of quantity x price
SumSubtotals(items) ==
    IF items = <<>> THEN 0
    ELSE Head(items).quantity * Head(items).price + SumSubtotals(Tail(items))

\* C20: every stored order's total_amount is the sum over its items of
\* quantity x price, in every reachable state (whatever operations ran on
\* the order since its creation).
C20_TotalAmount ==
    \A k \in 1..Len(orders) :
        orders[k].total_amount = SumSubtotals(orders[k].items)

\* C20 witness: an order with two items is stored with the total of both,
\* after update_order_status has changed it.
C20_Witness ==
    \E k \in 1..Len(orders) :
        /\ Len(orders[k].items) = 2
        /\ orders[k].total_amount = 4
        /\ orders[k].status = "completed"

\* ------------------------------------------------------- claims on products
\* C18: inventory transactions are all-or-nothing: a create_order or
\* cancel_order that ends with an error has written no stock (it left
\* products and orders as they were), so once it has applied its first
\* stock write it does not fail before the order insert or the status
\* change, also while products are updated or deleted by other handlers.
C18_AllOrNothing ==
    [][\A h \in Handlers :
        ( /\ Acts(h)
          /\ handlers[h].op \in {"create_order", "cancel_order"}
          /\ handlers'[h].pc = "done"
          /\ handlers'[h].outcome \notin {"201", "204"} )
        => handlers[h].writes = 0
      ]_vars

ProductOps == {"create_product", "update_product", "delete_product"}

\* C19: products are administered only by admins: create_product,
\* update_product and delete_product by a non-admin principal end with
\* ForbiddenError (403) and leave products unchanged; a step of a non-admin's
\* handler that changes products is a step of create_order or cancel_order
\* and changes nothing but stock: the records, their ids and their names
\* stay as they were.
C19_ProductsAdminOnly ==
    [][\A h \in Handlers :
        LET hr == handlers[h]
            pr == GetByField(users, "username", reqlog'[h].sub)
        IN  /\ ( /\ Starts(h)
                 /\ reqlog'[h].op \in ProductOps
                 /\ pr.role # "admin" )
                  => (handlers'[h] = Finished("403") /\ products' = products)
            /\ ( /\ Acts(h)
                 /\ products' # products
                 /\ hr.user.role # "admin" )
                  => ( /\ hr.op \in {"create_order", "cancel_order"}
                       /\ Len(products') = Len(products)
                       /\ \A k \in 1..Len(products) :
                             /\ products'[k].id = products[k].id
                             /\ products'[k].name = products[k].name )
      ]_vars

\* C19 witness: alice's delete_product was refused while her order has
\* taken a unit of the product, whose name is as the admin set it.
C19_Witness ==
    \E h, g \in Handlers :
        /\ reqlog[h].sub = "alice" /\ reqlog[h].op = "delete_product"
        /\ handlers[h].outcome = "403"
        /\ reqlog[g].sub = "alice" /\ reqlog[g].op = "create_order"
        /\ handlers[g].outcome = "201"
        /\ GetById(products, "p1") = NamedProduct("p1", "n1", MaxStock - 1)

====
